---- MODULE Spec2Model ----
(***************************************************************************)
(* Ledger posting engine of the finance manager backend: transactions,     *)
(* transfers, card purchases in installments and automatic debits, as      *)
(* implemented in backend/transactions and backend/accounts.               *)
(* Money is counted in cents (DecimalField with decimal_places = 2).       *)
(* Dates are <<year, month, day>> triples.                                 *)
(***************************************************************************)
EXTENDS Integers, Sequences, FiniteSets, TLC

\* ------------------------------------------------------------------ bounds
MaxTx == 4
MaxOps == 2
MaxPosts == 1
MaxPurchases == 1
MaxDebitOps == 3
MaxBatchOps == 2
MaxFxOps == 2
MaxConvertOps == 1
MaxCacheOps == 3
MaxRateOps == 2
MaxCardOps == 4

\* ------------------------------------------------------------- null values
Null == "null"
NullDate == <<0, 0, 0>>

\* ------------------------------------------------------------------- dates
IsLeap(y) == (y % 4 = 0 /\ y % 100 # 0) \/ y % 400 = 0

DaysInMonth(y, m) ==
    IF m = 2 THEN (IF IsLeap(y) THEN 29 ELSE 28)
    ELSE IF m \in {4, 6, 9, 11} THEN 30 ELSE 31

Min(a, b) == IF a <= b THEN a ELSE b

DateLE(a, b) ==
    \/ a[1] < b[1]
    \/ a[1] = b[1] /\ a[2] < b[2]
    \/ a[1] = b[1] /\ a[2] = b[2] /\ a[3] <= b[3]

NextDay(d) ==
    IF d[3] < DaysInMonth(d[1], d[2]) THEN <<d[1], d[2], d[3] + 1>>
    ELSE IF d[2] < 12 THEN <<d[1], d[2] + 1, 1>>
    ELSE <<d[1] + 1, 1, 1>>

RECURSIVE AddDays(_, _)
AddDays(d, n) == IF n = 0 THEN d ELSE AddDays(NextDay(d), n - 1)

\* dateutil.relativedelta(months = n): move the month, clamp the day to the
\* length of the month reached
AddMonths(d, n) ==
    LET idx == (d[2] - 1) + n
        y   == d[1] + (idx \div 12)
        m   == (idx % 12) + 1
    IN  <<y, m, Min(d[3], DaysInMonth(y, m))>>

\* dateutil.relativedelta(years = n)
AddYears(d, n) == <<d[1] + n, d[2], Min(d[3], DaysInMonth(d[1] + n, d[2]))>>

\* date.replace(day = k)
ReplaceDay(d, k) == <<d[1], d[2], k>>

\* ------------------------------------------------- users, accounts, types
RequestUsers == {"u1"}
Accounts == {"a1", "a2", "a3"}

\* Account.user
AccountUser(a) == IF a = "a3" THEN "u2" ELSE "u1"

\* Account.account_type
AccountTypeOf(a) == IF a = "a2" THEN "credit" ELSE "bank"

\* AccountType.allows_negative_balance
allows_negative_balance(a) == AccountTypeOf(a) = "credit"

\* AccountType.is_credit_account
is_credit_account(a) == AccountTypeOf(a) = "credit"

Category(u, n, t) == [user |-> u, name |-> n, transaction_type |-> t]

InitCategories ==
    { Category("u1", "Sueldo", "income"),
      Category("u1", "Comida", "expense"),
      Category("u2", "Otros", "expense") }

TRANSACTION_TYPES == {"income", "expense", "transfer"}
Amounts == {30, 50}
Currencies == {"ARS", "USD"}
OpeningBalances == {0, 100}

VARIABLES
    opening,      \* balance each account was opened with
    balance,      \* Account.balance, committed value
    txs,          \* rows of table transactions
    categories,   \* rows of table categories
    purchases,    \* rows of table card_purchases
    debits,       \* rows of table auto_debits, by id
    today,        \* timezone.now().date()
    ops,          \* number of operations performed so far
    procs,        \* the requests in flight, by worker
    rowlock,      \* holder of the row lock of each account
    fx,           \* app currency: rate cache, tables, log and clock
    last          \* the last operation: its request, outcome and prior state

vars == <<opening, balance, txs, categories, purchases, debits, today, ops,
          procs, rowlock, fx, last>>

\* the persisted tables as one value
DB == [balance |-> balance, txs |-> txs, categories |-> categories,
       purchases |-> purchases, debits |-> debits]

Store(db) ==
    /\ balance' = db.balance
    /\ txs' = db.txs
    /\ categories' = db.categories
    /\ purchases' = db.purchases
    /\ debits' = db.debits

TxIds == 1..MaxTx
FreeIds(db) == TxIds \ { t.id : t \in db.txs }
\* uuid.uuid4 default of Transaction.id: an id no row has
FreshId(db) == CHOOSE i \in FreeIds(db) : \A j \in FreeIds(db) : i <= j

Transaction(id, user, account, category, target, date, amount, currency, type, origin, confirmed, cp, ad, src) ==
    [id |-> id, user |-> user, account |-> account, category |-> category,
     target_account |-> target, date |-> date, amount |-> amount,
     currency |-> currency, transaction_type |-> type, origin |-> origin,
     is_confirmed |-> confirmed, card_purchase |-> cp, auto_debit |-> ad,
     transfer_source |-> src]

\* a block that is not atomic: the writes made before the exception stay
AtomicNoRollback(pre, post, raised) == post

\* @transaction.atomic: an exception leaving the block rolls every write back
Atomic(pre, post, raised) == IF raised THEN pre ELSE post

\* -------------------------------------------------- TransactionSerializer
\* TransactionSerializer.validate
validate(data, request_user) ==
    /\ AccountUser(data.account) = request_user
    /\ data.category.user = request_user
    /\ data.transaction_type = "transfer" =>
          /\ data.target_account # Null
          /\ AccountUser(data.target_account) = request_user
          /\ data.target_account # data.account
    /\ data.transaction_type \in {"income", "expense"} =>
          data.category.transaction_type = data.transaction_type

\* Transaction.clean
clean(t) ==
    /\ AccountUser(t.account) = t.user
    /\ t.category.user = t.user
    /\ t.transaction_type \in {"income", "expense"} =>
          t.category.transaction_type =
             (IF t.transaction_type = "income" THEN "income" ELSE "expense")
    /\ t.transaction_type = "transfer" =>
          /\ t.target_account # Null
          /\ AccountUser(t.target_account) = t.user
          /\ t.target_account # t.account

\* _update_account_balance that leaves a transfer out of the debit branch
update_account_balance_no_transfer(objBalance, type, amount, operation) ==
    IF operation = "add"
    THEN (IF type = "income" THEN objBalance + amount
          ELSE IF type \in {"expense"} THEN objBalance - amount
          ELSE objBalance)
    ELSE (IF type = "income" THEN objBalance - amount
          ELSE IF type \in {"expense"} THEN objBalance + amount
          ELSE objBalance)

\* TransactionSerializer._update_account_balance, on the balance the account
\* object holds
update_account_balance(objBalance, type, amount, operation) ==
    IF operation = "add"
    THEN (IF type = "income" THEN objBalance + amount
          ELSE IF type \in {"expense", "transfer"} THEN objBalance - amount
          ELSE objBalance)
    ELSE (IF type = "income" THEN objBalance - amount
          ELSE IF type \in {"expense", "transfer"} THEN objBalance + amount
          ELSE objBalance)

\* the row super().create(validated_data) inserts
NewTransaction(db, data, user) ==
    Transaction(FreshId(db), user, data.account, data.category,
                data.target_account, today, data.amount, data.currency,
                data.transaction_type, data.origin, data.is_confirmed,
                0, Null, 0)

TransferCategory(user) == Category(user, "Transferencia", "income")

\* the income row _create_transfer_counterpart inserts on the target account
Counterpart(db, t) ==
    Transaction(FreshId(db), t.user, t.target_account,
                TransferCategory(t.user), Null, t.date, t.amount,
                t.currency, "income", "transfer", TRUE, 0, Null, t.id)

\* number of writes of TransactionSerializer.create for this request
CreateSteps(data) == IF data.transaction_type = "transfer" THEN 5 ELSE 2

\* the first n writes of TransactionSerializer.create, in program order:
\*  1 insert the transaction, 2 save the account balance,
\*  3 get or create the category Transferencia, 4 insert the counterpart,
\*  5 save the target account balance
create_steps(db, data, user, n) ==
    LET t  == NewTransaction(db, data, user)
        d1 == IF n >= 1 THEN [db EXCEPT !.txs = @ \cup {t}] ELSE db
        d2 == IF n >= 2
              THEN [d1 EXCEPT !.balance[t.account] =
                       update_account_balance(db.balance[t.account],
                           t.transaction_type, t.amount, "add")]
              ELSE d1
        d3 == IF n >= 3
              THEN [d2 EXCEPT !.categories = @ \cup {TransferCategory(user)}]
              ELSE d2
        d4 == IF n >= 4
              THEN [d3 EXCEPT !.txs = @ \cup {Counterpart(d3, t)}]
              ELSE d3
        d5 == IF n >= 5
              THEN [d4 EXCEPT !.balance[t.target_account] =
                       db.balance[t.target_account] + t.amount]
              ELSE d4
    IN  d5

\* TransactionSerializer.create; failAt = k > 0 makes the k-th write raise
create(db, data, user, failAt) ==
    Atomic(db,
           create_steps(db, data, user,
                        IF failAt = 0 THEN CreateSteps(data) ELSE failAt - 1),
           failAt # 0)

RequestOrigins == {"manual"}

\* the deserialized bodies of POST /transactions: every combination of the
\* fields validate reads, and every amount, currency and confirmation flag
\* on the accounts of the caller
PostData ==
    [account : Accounts, category : categories,
     target_account : Accounts \cup {Null}, amount : {30},
     currency : {"ARS"}, transaction_type : TRANSACTION_TYPES,
     origin : RequestOrigins, is_confirmed : {TRUE}]
    \cup
    [account : {"a1", "a2"}, category : {Category("u1", "Comida", "expense")},
     target_account : {"a1", "a2"}, amount : Amounts,
     currency : Currencies, transaction_type : {"expense", "transfer"},
     origin : RequestOrigins, is_confirmed : BOOLEAN]
    \cup
    [account : {"a1", "a2"}, category : {Category("u1", "Sueldo", "income")},
     target_account : {Null}, amount : Amounts,
     currency : Currencies, transaction_type : {"income"},
     origin : RequestOrigins, is_confirmed : BOOLEAN]

\* the bodies the ledger as a whole is exercised with
LedgerData ==
    [account : {"a1", "a2"}, category : {Category("u1", "Comida", "expense")},
     target_account : {Null}, amount : Amounts,
     currency : {"ARS"}, transaction_type : {"expense"},
     origin : RequestOrigins, is_confirmed : BOOLEAN]
    \cup
    [account : {"a1", "a2"}, category : {Category("u1", "Sueldo", "income")},
     target_account : {Null}, amount : Amounts,
     currency : {"ARS"}, transaction_type : {"income"},
     origin : RequestOrigins, is_confirmed : BOOLEAN]
    \cup
    { [account |-> a, category |-> Category("u1", "Comida", "expense"),
       target_account |-> (IF a = "a1" THEN "a2" ELSE "a1"), amount |-> m,
       currency |-> "ARS", transaction_type |-> "transfer",
       origin |-> "manual", is_confirmed |-> TRUE]
      : a \in {"a1", "a2"}, m \in Amounts }

Outcome(op, ok, user, obj, data, fail) ==
    [op |-> op, ok |-> ok, user |-> user, obj |-> obj, data |-> data,
     fail |-> fail, pre |-> DB, today |-> today]

Seq1 == /\ ops' = ops + 1
        /\ UNCHANGED <<opening, today, procs, rowlock, fx>>

\* ids the rows of TransactionSerializer.create need
IdsNeeded(data) == IF data.transaction_type = "transfer" THEN 2 ELSE 1

\* POST /transactions: is_valid, then serializer.save -> create
Post(user, data, failAt) ==
    /\ IF validate(data, user)
       THEN /\ Cardinality(FreeIds(DB)) >= IdsNeeded(data)
            /\ failAt \in 0..CreateSteps(data)
            /\ Store(create(DB, data, user, failAt))
            /\ last' = Outcome("post", failAt = 0, user, Null, data, failAt)
       ELSE /\ failAt = 0
            /\ Store(DB)
            /\ last' = Outcome("post", FALSE, user, Null, data, 0)
    /\ Seq1

\* the row super().update(instance, validated_data) saves
UpdatedTransaction(t, data) ==
    [t EXCEPT !.account = data.account, !.category = data.category,
              !.target_account = data.target_account,
              !.amount = data.amount, !.currency = data.currency,
              !.transaction_type = data.transaction_type,
              !.origin = data.origin, !.is_confirmed = data.is_confirmed]

\* TransactionSerializer.update.  instanceBalance is the balance of the account
\* object get_object() loaded with the instance, dataBalance the balance of the
\* account object is_valid() loaded for validated_data['account']: two objects,
\* both read before update() runs.
update(db, t, data, instanceBalance, dataBalance) ==
    LET d1 == [db EXCEPT !.balance[t.account] =
                  update_account_balance(instanceBalance,
                      t.transaction_type, t.amount, "subtract")]
        u  == UpdatedTransaction(t, data)
        d2 == [d1 EXCEPT !.txs = (@ \ {t}) \cup {u}]
    IN  [d2 EXCEPT !.balance[u.account] =
            update_account_balance(dataBalance,
                u.transaction_type, u.amount, "add")]

\* request bodies of PUT /transactions/<id>: the instance with another amount
\* and account
UpdateData(t) ==
    { [account |-> a, category |-> t.category,
       target_account |-> t.target_account, amount |-> m,
       currency |-> t.currency, transaction_type |-> t.transaction_type,
       origin |-> t.origin, is_confirmed |-> t.is_confirmed]
      : a \in {"a1", "a2"}, m \in Amounts }

\* PUT /transactions/<id>: get_object, is_valid, serializer.save -> update
Update(user, t, data) ==
    /\ t \in txs /\ t.user = user
    /\ IF validate(data, user)
       THEN /\ Store(update(DB, t, data, balance[t.account],
                            balance[data.account]))
            /\ last' = Outcome("update", TRUE, user, t, data, 0)
       ELSE /\ Store(DB)
            /\ last' = Outcome("update", FALSE, user, t, data, 0)
    /\ Seq1

\* on_delete = CASCADE of CardPurchase.original_transaction and of
\* Transaction.card_purchase
Cascade(db, t) ==
    LET gone == { p \in db.purchases : p.original_transaction = t.id }
    IN  [db EXCEPT !.purchases = @ \ gone,
                   !.txs = { x \in @ : /\ x # t
                                       /\ \A p \in gone :
                                             x.card_purchase # p.id }]

\* DELETE /transactions/<id>: ModelViewSet.destroy -> instance.delete()
Delete(user, t) ==
    /\ t \in txs /\ t.user = user
    /\ Store(Cascade(DB, t))
    /\ last' = Outcome("delete", TRUE, user, t, Null, 0)
    /\ Seq1

\* TransactionViewSet.confirm
Confirm(user, t) ==
    /\ t \in txs /\ t.user = user
    /\ Store([DB EXCEPT !.txs = (@ \ {t}) \cup {[t EXCEPT !.is_confirmed = TRUE]}])
    /\ last' = Outcome("confirm", TRUE, user, t, Null, 0)
    /\ Seq1

\* ---------------------------------------------------- CardPurchaseSerializer
RECURSIVE Pow(_, _)
Pow(b, n) == IF n = 0 THEN 1 ELSE b * Pow(b, n - 1)

\* Decimal.quantize(Decimal('0.01')) of num/den cents as a DecimalField is
\* saved (ROUND_HALF_EVEN of the default context)
RoundHalfEven(num, den) ==
    LET q == num \div den
        r == num % den
    IN  IF 2 * r < den THEN q
        ELSE IF 2 * r > den THEN q + 1
        ELSE IF q % 2 = 0 THEN q ELSE q + 1

\* total_amount * (1 + interest_rate / 100) ** installments as the fraction
\* <<numerator, denominator>> of cents; interest_rate in whole percents
TotalWithInterest(total_amount, interest_rate, installments) ==
    IF interest_rate > 0
    THEN <<total_amount * Pow(100 + interest_rate, installments),
           Pow(100, installments)>>
    ELSE <<total_amount, 1>>

\* CardPurchaseSerializer.validate
validate_purchase(data, request_user) ==
    /\ AccountUser(data.account) = request_user
    /\ is_credit_account(data.account)
    /\ DateLE(data.purchase_date, data.first_installment_date)

RECURSIVE NthFreeId(_, _)
NthFreeId(free, i) ==
    LET m == CHOOSE x \in free : \A y \in free : x <= y
    IN  IF i = 1 THEN m ELSE NthFreeId(free \ {m}, i - 1)

\* current_date of _generate_installment_transactions at iteration i (from 0)
RECURSIVE InstallmentDate(_, _)
InstallmentDate(first, i) ==
    IF i = 0 THEN first ELSE AddMonths(InstallmentDate(first, i - 1), 1)

CardCategory(user) == Category(user, "Compras con Tarjeta", "expense")
InstallmentCategory(user) == Category(user, "Cuotas de Tarjeta", "expense")

FreshPurchaseId(db) ==
    CHOOSE i \in 1..(MaxPurchases + 1) : \A p \in db.purchases : p.id # i

\* _generate_installment_transactions, were current_date never advanced
generate_installment_transactions_one_date(db, p, unrounded) ==
    LET free == FreeIds(db)
        rows == { Transaction(NthFreeId(free, i + 1), p.user, p.account,
                      InstallmentCategory(p.user), Null,
                      p.first_installment_date,
                      RoundHalfEven(unrounded[1],
                                    unrounded[2] * p.total_installments),
                      p.currency, "expense", "installment", FALSE,
                      p.id, Null, 0)
                  : i \in 0..(p.total_installments - 1) }
    IN  [db EXCEPT !.categories = @ \cup {InstallmentCategory(p.user)},
                   !.txs = @ \cup rows]

\* CardPurchaseSerializer._generate_installment_transactions
generate_installment_transactions(db, p, unrounded) ==
    LET free == FreeIds(db)
        rows == { Transaction(NthFreeId(free, i + 1), p.user, p.account,
                      InstallmentCategory(p.user), Null,
                      InstallmentDate(p.first_installment_date, i),
                      RoundHalfEven(unrounded[1],
                                    unrounded[2] * p.total_installments),
                      p.currency, "expense", "installment", FALSE,
                      p.id, Null, 0)
                  : i \in 0..(p.total_installments - 1) }
    IN  [db EXCEPT !.categories = @ \cup {InstallmentCategory(p.user)},
                   !.txs = @ \cup rows]

\* CardPurchaseSerializer.create
create_purchase(db, data, user) ==
    LET twi  == TotalWithInterest(data.total_amount, data.interest_rate,
                                  data.total_installments)
        d1   == [db EXCEPT !.categories = @ \cup {CardCategory(user)}]
        orig == Transaction(FreshId(d1), user, data.account,
                    CardCategory(user), Null, data.purchase_date,
                    data.total_amount, data.currency, "expense", "card",
                    TRUE, 0, Null, 0)
        d2   == [d1 EXCEPT !.txs = @ \cup {orig}]
        p    == [id |-> FreshPurchaseId(db), user |-> user,
                 account |-> data.account,
                 original_transaction |-> orig.id,
                 total_amount |-> data.total_amount,
                 currency |-> data.currency,
                 total_installments |-> data.total_installments,
                 installment_amount |->
                     RoundHalfEven(twi[1], twi[2] * data.total_installments),
                 interest_rate |-> data.interest_rate,
                 total_with_interest |-> RoundHalfEven(twi[1], twi[2]),
                 first_installment_date |-> data.first_installment_date,
                 purchase_date |-> data.purchase_date,
                 current_installment |-> 0,
                 status |-> data.status]
        d3   == [d2 EXCEPT !.purchases = @ \cup {p}]
    IN  Atomic(db, generate_installment_transactions(d3, p, twi), FALSE)

Installments == {2}
InterestRates == {0, 10}
Principals == {100}

\* request bodies of POST /card-purchases
PurchaseData ==
    [account : Accounts, total_amount : Principals, currency : {"ARS"},
     total_installments : Installments, interest_rate : InterestRates,
     purchase_date : {today},
     first_installment_date : {today, AddMonths(today, 1)},
     status : {"active"}]

\* POST /card-purchases: is_valid, then serializer.save -> create
CreateCardPurchase(user, data) ==
    /\ Cardinality(purchases) < MaxPurchases
    /\ IF validate_purchase(data, user)
       THEN /\ Cardinality(FreeIds(DB)) >= data.total_installments + 1
            /\ Store(create_purchase(DB, data, user))
            /\ last' = Outcome("createCardPurchase", TRUE, user, Null, data, 0)
       ELSE /\ Store(DB)
            /\ last' = Outcome("createCardPurchase", FALSE, user, Null, data, 0)
    /\ Seq1

\* ------------------------------------------------------ TransactionService
\* Transaction.objects.filter(card_purchase = p, origin = 'installment',
\* is_confirmed = False).order_by('date')
PendingInstallments(db, p) ==
    { t \in db.txs : /\ t.card_purchase = p.id
                     /\ t.origin = "installment"
                     /\ ~t.is_confirmed }

\* process_installment_payment, were any later installment number accepted
process_installment_payment_unbounded(db, p, installment_number) ==
    LET pending == PendingInstallments(db, p)
    IN  IF p.status # "active"
        THEN [db |-> db, raised |-> TRUE, error |-> "La compra no esta activa"]
        ELSE IF installment_number <= p.current_installment
        THEN [db |-> db, raised |-> TRUE, error |-> "Esta cuota ya fue pagada"]
        ELSE IF pending = {}
        THEN [db |-> db, raised |-> TRUE, error |-> "No hay cuotas pendientes"]
        ELSE
          LET t  == CHOOSE x \in pending :
                       \A y \in pending : DateLE(x.date, y.date)
              p2 == [p EXCEPT !.current_installment = installment_number,
                              !.status =
                                  IF installment_number = p.total_installments
                                  THEN "completed" ELSE @]
          IN  [db |-> Atomic(db,
                        [db EXCEPT
                           !.txs = (@ \ {t}) \cup
                                   {[t EXCEPT !.is_confirmed = TRUE]},
                           !.purchases = (@ \ {p}) \cup {p2}],
                        FALSE),
               raised |-> FALSE, error |-> ""]

\* TransactionService.process_installment_payment
process_installment_payment(db, p, installment_number) ==
    LET pending == PendingInstallments(db, p)
    IN  IF p.status # "active"
        THEN [db |-> db, raised |-> TRUE, error |-> "La compra no esta activa"]
        ELSE IF installment_number <= p.current_installment
        THEN [db |-> db, raised |-> TRUE, error |-> "Esta cuota ya fue pagada"]
        ELSE IF installment_number > p.total_installments
        THEN [db |-> db, raised |-> TRUE, error |-> "Numero de cuota invalido"]
        ELSE IF pending = {}
        THEN [db |-> db, raised |-> TRUE, error |-> "No hay cuotas pendientes"]
        ELSE
          LET t  == CHOOSE x \in pending :
                       \A y \in pending : DateLE(x.date, y.date)
              p2 == [p EXCEPT !.current_installment = installment_number,
                              !.status =
                                  IF installment_number = p.total_installments
                                  THEN "completed" ELSE @]
          IN  [db |-> Atomic(db,
                        [db EXCEPT
                           !.txs = (@ \ {t}) \cup
                                   {[t EXCEPT !.is_confirmed = TRUE]},
                           !.purchases = (@ \ {p}) \cup {p2}],
                        FALSE),
               raised |-> FALSE, error |-> ""]

\* payInstallment(cardPurchase, installmentNumber)
PayInstallment(p, installment_number) ==
    /\ p \in purchases
    /\ LET r == process_installment_payment(DB, p, installment_number)
       IN  /\ Store(r.db)
           /\ last' = Outcome("payInstallment", ~r.raised, p.user, p,
                              installment_number, 0)
    /\ Seq1

\* pay_early, were it to delete every transaction linked to the purchase
pay_early_all_linked(db, p) ==
    IF p.status # "active" THEN db
    ELSE [db EXCEPT
            !.purchases = (@ \ {p}) \cup
                {[p EXCEPT !.status = "completed",
                           !.current_installment = p.total_installments]},
            !.txs = { t \in @ : t.card_purchase # p.id }]

\* CardPurchaseViewSet.pay_early
pay_early(db, p) ==
    IF p.status # "active" THEN db
    ELSE [db EXCEPT
            !.purchases = (@ \ {p}) \cup
                {[p EXCEPT !.status = "completed",
                           !.current_installment = p.total_installments]},
            !.txs = { t \in @ : ~(t.card_purchase = p.id /\ ~t.is_confirmed) }]

PayEarly(user, p) ==
    /\ p \in purchases /\ p.user = user
    /\ Store(pay_early(DB, p))
    /\ last' = Outcome("payEarly", p.status = "active", user, p, Null, 0)
    /\ Seq1

\* ---------------------------------------------------------------- AutoDebit
FREQUENCY_CHOICES ==
    {"daily", "weekly", "biweekly", "monthly", "quarterly", "yearly"}

\* calculate_next_execution without the clamp of the anchor to 28
calculate_next_execution_unclamped(d) ==
    IF d.last_execution = NullDate THEN d.start_date
    ELSE IF d.frequency = "daily" THEN AddDays(d.last_execution, 1)
    ELSE IF d.frequency = "weekly" THEN AddDays(d.last_execution, 7)
    ELSE IF d.frequency = "biweekly" THEN AddDays(d.last_execution, 14)
    ELSE IF d.frequency = "monthly"
    THEN (LET next_date == AddMonths(d.last_execution, 1)
          IN  IF d.day_of_month # 0
              THEN ReplaceDay(next_date, d.day_of_month)
              ELSE next_date)
    ELSE IF d.frequency = "quarterly" THEN AddMonths(d.last_execution, 3)
    ELSE IF d.frequency = "yearly" THEN AddYears(d.last_execution, 1)
    ELSE d.last_execution

\* AutoDebit.calculate_next_execution
calculate_next_execution(d) ==
    IF d.last_execution = NullDate THEN d.start_date
    ELSE IF d.frequency = "daily" THEN AddDays(d.last_execution, 1)
    ELSE IF d.frequency = "weekly" THEN AddDays(d.last_execution, 7)
    ELSE IF d.frequency = "biweekly" THEN AddDays(d.last_execution, 14)
    ELSE IF d.frequency = "monthly"
    THEN (LET next_date == AddMonths(d.last_execution, 1)
          IN  IF d.day_of_month # 0
              THEN ReplaceDay(next_date, Min(d.day_of_month, 28))
              ELSE next_date)
    ELSE IF d.frequency = "quarterly" THEN AddMonths(d.last_execution, 3)
    ELSE IF d.frequency = "yearly" THEN AddYears(d.last_execution, 1)
    ELSE d.last_execution

\* can_execute, were next_execution not looked at
can_execute_any_day(d, now) ==
    /\ d.status = "active"
    /\ (d.end_date = NullDate \/ DateLE(now, d.end_date))

\* AutoDebit.can_execute
can_execute(d, now) ==
    /\ d.status = "active"
    /\ DateLE(d.next_execution, now)
    /\ (d.end_date = NullDate \/ DateLE(now, d.end_date))

\* TransactionService.execute_auto_debit; obj is the auto_debit object the
\* caller passed, as the call leaves it in memory
execute_auto_debit(db, id, now) ==
    LET d == db.debits[id]
    IN  IF ~can_execute(d, now)
        THEN [db |-> db, raised |-> TRUE, obj |-> d,
              error |-> "El debito no puede ejecutarse"]
        ELSE IF db.balance[d.account] < d.amount
                /\ ~allows_negative_balance(d.account)
        THEN LET o1 == [d EXCEPT !.failed_attempts = @ + 1]
                 w1 == [db EXCEPT !.debits[id] = o1]
                 \* except Exception: counted and saved once more
                 o2 == [o1 EXCEPT !.failed_attempts = @ + 1]
                 w2 == [w1 EXCEPT !.debits[id] = o2]
             IN  [db |-> Atomic(db, w2, TRUE), raised |-> TRUE, obj |-> o2,
                  error |-> "Saldo insuficiente para ejecutar el debito"]
        ELSE LET t  == Transaction(FreshId(db), d.user, d.account, d.category,
                           Null, now, d.amount, d.currency, "expense",
                           "auto_debit", TRUE, 0, id, 0)
                 w1 == [db EXCEPT !.txs = @ \cup {t},
                                  !.balance[d.account] = @ - d.amount]
                 o1 == [d EXCEPT !.last_execution = now,
                                 !.execution_count = @ + 1,
                                 !.failed_attempts = 0]
                 o2 == [o1 EXCEPT !.next_execution =
                                      calculate_next_execution(o1)]
             IN  [db |-> Atomic(db, [w1 EXCEPT !.debits[id] = o2], FALSE),
                  raised |-> FALSE, obj |-> o2, error |-> ""]

\* AutoDebitViewSet.execute
ExecuteAutoDebit(user, id) ==
    /\ id \in DOMAIN debits /\ debits[id].user = user
    /\ FreeIds(DB) # {}
    /\ LET r == execute_auto_debit(DB, id, today)
       IN  /\ Store(r.db)
           /\ last' = Outcome("executeAutoDebit", ~r.raised, user, id,
                              [obj |-> r.obj, error |-> r.error], 0)
    /\ Seq1

\* AutoDebitViewSet.pause
Pause(user, id) ==
    /\ id \in DOMAIN debits /\ debits[id].user = user
    /\ Store([DB EXCEPT !.debits[id].status = "paused"])
    /\ last' = Outcome("pause", TRUE, user, id, Null, 0)
    /\ Seq1

\* AutoDebitViewSet.resume
Resume(user, id) ==
    /\ id \in DOMAIN debits /\ debits[id].user = user
    /\ Store([DB EXCEPT !.debits[id].status = "active"])
    /\ last' = Outcome("resume", TRUE, user, id, Null, 0)
    /\ Seq1

\* the clock reaches the next day
Tick ==
    /\ today' = NextDay(today)
    /\ ops' = ops + 1
    /\ last' = Outcome("tick", TRUE, Null, Null, Null, 0)
    /\ UNCHANGED <<opening, balance, txs, categories, purchases, debits,
                   procs, rowlock, fx>>

\* the row AutoDebitSerializer.create inserts
NewAutoDebit(user, account, category, amount, frequency, start, end, dom) ==
    [user |-> user, account |-> account, category |-> category,
     amount |-> amount, currency |-> "ARS", frequency |-> frequency,
     start_date |-> start, end_date |-> end, next_execution |-> start,
     last_execution |-> NullDate, status |-> "active",
     execution_count |-> 0, failed_attempts |-> 0, day_of_month |-> dom]

\* execute_pending_debits: the rows its filter selects
pending_debits(db, now) ==
    { id \in DOMAIN db.debits : /\ db.debits[id].status = "active"
                                /\ DateLE(db.debits[id].next_execution, now) }

RECURSIVE execute_pending_loop_abort(_, _, _, _)
RECURSIVE execute_pending_loop(_, _, _, _)
\* the loop of execute_pending_debits that gives up at the first failure
execute_pending_loop_abort(db, order, now, results) ==
    IF order = <<>> THEN [db |-> db, results |-> results]
    ELSE LET r == execute_auto_debit(db, Head(order), now)
         IN  IF r.raised
             THEN [db |-> r.db,
                   results |-> [results EXCEPT
                      !.failed = @ + 1,
                      !.errors = Append(@, [auto_debit |-> Head(order),
                                            error |-> r.error])]]
             ELSE execute_pending_loop_abort(r.db, Tail(order), now,
                      [results EXCEPT !.executed = @ + 1])

\* execute_pending_debits: the loop over the rows, in the order the query
\* returned them; each call of execute_auto_debit is its own atomic block
execute_pending_loop(db, order, now, results) ==
    IF order = <<>> THEN [db |-> db, results |-> results]
    ELSE LET r == execute_auto_debit(db, Head(order), now)
         IN  execute_pending_loop(r.db, Tail(order), now,
                IF r.raised
                THEN [results EXCEPT
                        !.failed = @ + 1,
                        !.errors = Append(@, [auto_debit |-> Head(order),
                                              error |-> r.error])]
                ELSE [results EXCEPT !.executed = @ + 1])

\* TransactionService.execute_pending_debits
execute_pending_debits(db, order, now) ==
    execute_pending_loop(db, order, now,
                         [executed |-> 0, failed |-> 0, errors |-> <<>>])

\* the orders in which a query without ORDER BY may return the rows S
Orders(S) ==
    { o \in [1..Cardinality(S) -> S] :
        \A i, j \in 1..Cardinality(S) : o[i] = o[j] => i = j }

\* Command.handle of process_auto_debits without --dry-run
ProcessAutoDebits(order) ==
    /\ order \in Orders(pending_debits(DB, today))
    /\ order # <<>>
    /\ Cardinality(FreeIds(DB)) >= Len(order)
    /\ LET r == execute_pending_debits(DB, order, today)
       IN  /\ Store(r.db)
           /\ last' = Outcome("processAutoDebits", TRUE, Null, order,
                              r.results, 0)
    /\ Seq1

\* ----------------------------------------------------------------- Decimal
\* decimal.Decimal: the number c / 10^e, kept without trailing zeros so that
\* equal numbers are equal values.  Amounts and rates are not negative.
RECURSIVE Pow10(_)
Pow10(k) == IF k = 0 THEN 1 ELSE 10 * Pow10(k - 1)

RECURSIVE Normalize(_)
Normalize(d) ==
    IF d.e > 0 /\ d.c % 10 = 0
    THEN Normalize([c |-> d.c \div 10, e |-> d.e - 1])
    ELSE d

Decimal(c, e) == Normalize([c |-> c, e |-> e])

\* Python's None where a Decimal is expected
None == [c |-> 0, e |-> 0 - 1]

\* bool(x) of a Decimal or None
Truthy(x) == x # None /\ x.c # 0

\* Decimal.__mul__: exact
Mul(a, b) == Decimal(a.c * b.c, a.e + b.e)

ROUNDINGS == {"ROUND_HALF_UP", "ROUND_HALF_EVEN"}

\* Decimal.quantize(Decimal('0.' + '0' * places), rounding)
quantize(d, places, rounding) ==
    IF d.e <= places THEN d
    ELSE LET p  == Pow10(d.e - places)
             q  == d.c \div p
             r  == d.c % p
             up == IF rounding = "ROUND_HALF_UP" THEN 2 * r >= p
                   ELSE 2 * r > p \/ (2 * r = p /\ q % 2 = 1)
         IN  Decimal(q + (IF up THEN 1 ELSE 0), places)

\* decimal places the model keeps of a quotient; the decimal context of the
\* program keeps 28 significant digits
DivPlaces == 6

RECURSIVE LongDiv(_, _, _, _)
\* the digits of num / c after the point, by long division
LongDiv(q, r, c, n) ==
    IF n = 0 THEN [q |-> q, r |-> r]
    ELSE LongDiv(q * 10 + (r * 10) \div c, (r * 10) % c, c, n - 1)

\* Decimal('1') / d, for d > 0
Reciprocal(d) ==
    LET num == Pow10(d.e)
        x   == LongDiv(num \div d.c, num % d.c, d.c, DivPlaces)
    IN  Decimal(x.q + (IF 2 * x.r >= d.c THEN 1 ELSE 0), DivPlaces)

\* --------------------------------------------------------- CurrencyService
CurrencyCodes == {"ARS", "USD", "CLP"}

\* the ordered pairs of distinct currencies
Pairs == { p \in CurrencyCodes \X CurrencyCodes : p[1] # p[2] }

\* hours of the 24 hour window of _get_db_rate and of a calendar day
HOURS == 24

\* Currency.decimal_places default, and the default of
\* _get_currency_decimal_places for a code without a row
DEFAULT_PLACES == 2

\* decimal_places of ExchangeRate.rate and of ConversionLog.exchange_rate
RATE_PLACES == 6

\* decimal_places of ConversionLog.original_amount and converted_amount
LOG_PLACES == 2

\* the state of the app before any rate is known
NoCurrencyData ==
    [cache |-> [p \in Pairs |-> None], rates |-> {}, logs |-> <<>>,
     currencies |-> [c \in {"ARS", "USD"} |-> DEFAULT_PLACES], now |-> 36]

\* a row of table exchange_rates; DecimalField rounds the rate on save
ExchangeRate(from, to, rate, date, source) ==
    [from_currency |-> from, to_currency |-> to,
     rate |-> quantize(rate, RATE_PLACES, "ROUND_HALF_EVEN"),
     date |-> date, source |-> source]

\* Meta.ordering = ['-date'] and QuerySet.first()
first(rows) == CHOOSE r \in rows : \A q \in rows : q.date <= r.date

\* _get_cached_rate
get_cached_rate(st, from, to) == st.cache[<<from, to>>]

\* _cache_rate
cache_rate(st, from, to, rate) == [st EXCEPT !.cache[<<from, to>>] = rate]

\* _get_db_rate
get_db_rate(st, from, to) ==
    LET rows == { r \in st.rates : /\ r.from_currency = from
                                   /\ r.to_currency = to
                                   /\ r.date >= st.now - HOURS }
    IN  IF rows = {} THEN None ELSE first(rows).rate

\* what a request to the provider ends in besides a rate: a response without
\* the rate or a RequestException (None), or another exception (Raised)
Raised == [c |-> 0, e |-> 0 - 2]

\* _fetch_single_rate against provider state api
fetch_single_rate(api, from, to) == api.rates[<<from, to>>]

\* _fetch_rate_from_api: the rate and the requests made, in order
fetch_rate_from_api(api, from, to) ==
    IF ~api.api_key THEN [rate |-> None, calls |-> <<>>]
    ELSE IF to = "ARS"
    THEN LET usd_to_ars  == fetch_single_rate(api, "USD", "ARS")
             from_to_usd == fetch_single_rate(api, from, "USD")
             direct      == fetch_single_rate(api, from, to)
         IN  IF usd_to_ars = Raised
             THEN [rate |-> None, calls |-> << <<"USD", "ARS">> >>]
             ELSE IF from_to_usd = Raised
             THEN [rate |-> None,
                   calls |-> << <<"USD", "ARS">>, <<from, "USD">> >>]
             ELSE IF Truthy(usd_to_ars) /\ Truthy(from_to_usd)
             THEN [rate |-> Mul(from_to_usd, usd_to_ars),
                   calls |-> << <<"USD", "ARS">>, <<from, "USD">> >>]
             ELSE [rate |-> IF direct = Raised THEN None ELSE direct,
                   calls |-> << <<"USD", "ARS">>, <<from, "USD">>,
                                <<from, to>> >>]
    ELSE LET direct == fetch_single_rate(api, from, to)
         IN  [rate |-> IF direct = Raised THEN None ELSE direct,
              calls |-> << <<from, to>> >>]

\* _get_inverse_rate
get_inverse_rate(st, from, to) ==
    LET rows == { r \in st.rates : /\ r.from_currency = to
                                   /\ r.to_currency = from }
    IN  IF rows # {} /\ first(rows).rate.c > 0
        THEN Reciprocal(first(rows).rate)
        ELSE None

\* Currency.objects.get_or_create(code=code)
get_or_create_currency(table, code) ==
    IF code \in DOMAIN table THEN table
    ELSE [c \in DOMAIN table \cup {code} |->
             IF c = code THEN DEFAULT_PLACES ELSE table[c]]

\* _save_rate_to_db; dbOk is false when a statement of it raises, which the
\* method logs and swallows
save_rate_to_db(st, from, to, rate, dbOk) ==
    IF ~dbOk THEN st
    ELSE LET known == [st EXCEPT !.currencies =
                          get_or_create_currency(
                              get_or_create_currency(@, from), to)]
             same  == { r \in st.rates :
                          /\ r.from_currency = from /\ r.to_currency = to
                          /\ r.date \div HOURS = st.now \div HOURS }
         IN  IF same = {}
             THEN [known EXCEPT !.rates =
                      @ \cup {ExchangeRate(from, to, rate, st.now, "api")}]
             ELSE IF Cardinality(same) = 1
             THEN [known EXCEPT !.rates = (@ \ same) \cup
                      { ExchangeRate(from, to, rate, r.date, "api")
                        : r \in same }]
             \* MultipleObjectsReturned
             ELSE known

\* get_exchange_rate, were it to answer 1 when every source fails
get_exchange_rate_default_one(st, from, to, api, dbOk) ==
    IF from = to
    THEN [st |-> st, rate |-> Decimal(1, 0), calls |-> <<>>, by |-> "same"]
    ELSE
    LET cached_rate == get_cached_rate(st, from, to)
        db_rate     == get_db_rate(st, from, to)
        fetched     == fetch_rate_from_api(api, from, to)
        api_rate    == fetched.rate
        inverse     == get_inverse_rate(st, from, to)
    IN  IF Truthy(cached_rate)
        THEN [st |-> st, rate |-> cached_rate, calls |-> <<>>,
              by |-> "cache"]
        ELSE IF Truthy(db_rate)
        THEN [st |-> cache_rate(st, from, to, db_rate), rate |-> db_rate,
              calls |-> <<>>, by |-> "db"]
        ELSE IF Truthy(api_rate)
        THEN [st |-> cache_rate(save_rate_to_db(st, from, to, api_rate, dbOk),
                                from, to, api_rate),
              rate |-> api_rate, calls |-> fetched.calls, by |-> "api"]
        ELSE IF Truthy(inverse)
        THEN [st |-> st, rate |-> inverse, calls |-> fetched.calls,
              by |-> "inverse"]
        ELSE [st |-> st, rate |-> Decimal(1, 0), calls |-> fetched.calls,
              by |-> "none"]

\* get_exchange_rate: the state it leaves, the rate or None, the requests
\* made to the provider and the step of the chain that answered
get_exchange_rate(st, from, to, api, dbOk) ==
    IF from = to
    THEN [st |-> st, rate |-> Decimal(1, 0), calls |-> <<>>, by |-> "same"]
    ELSE
    LET cached_rate == get_cached_rate(st, from, to)
        db_rate     == get_db_rate(st, from, to)
        fetched     == fetch_rate_from_api(api, from, to)
        api_rate    == fetched.rate
        inverse     == get_inverse_rate(st, from, to)
    IN  IF Truthy(cached_rate)
        THEN [st |-> st, rate |-> cached_rate, calls |-> <<>>,
              by |-> "cache"]
        ELSE IF Truthy(db_rate)
        THEN [st |-> cache_rate(st, from, to, db_rate), rate |-> db_rate,
              calls |-> <<>>, by |-> "db"]
        ELSE IF Truthy(api_rate)
        THEN [st |-> cache_rate(save_rate_to_db(st, from, to, api_rate, dbOk),
                                from, to, api_rate),
              rate |-> api_rate, calls |-> fetched.calls, by |-> "api"]
        ELSE IF Truthy(inverse)
        THEN [st |-> st, rate |-> inverse, calls |-> fetched.calls,
              by |-> "inverse"]
        ELSE [st |-> st, rate |-> None, calls |-> fetched.calls,
              by |-> "none"]

\* _get_currency_decimal_places
get_currency_decimal_places(st, code) ==
    IF code \in DOMAIN st.currencies THEN st.currencies[code]
    ELSE DEFAULT_PLACES

\* _log_conversion; logOk is false when ConversionLog.objects.create raises,
\* which the method logs and swallows
log_conversion(st, from, to, original, converted, rate, context, logOk) ==
    IF ~logOk THEN st
    ELSE [st EXCEPT !.logs = Append(@,
            [from_currency |-> from, to_currency |-> to,
             original_amount |->
                 quantize(original, LOG_PLACES, "ROUND_HALF_EVEN"),
             converted_amount |->
                 quantize(converted, LOG_PLACES, "ROUND_HALF_EVEN"),
             exchange_rate |-> quantize(rate, RATE_PLACES, "ROUND_HALF_EVEN"),
             source |-> "api", context |-> context])]

\* convert_amount: the state it leaves and the amount, or raised
convert_amount(st, amount, from, to, context, api, dbOk, logOk) ==
    IF from = to
    THEN [st |-> st, raised |-> FALSE, amount |-> amount, rate |-> None,
          calls |-> <<>>, by |-> "same"]
    ELSE LET r == get_exchange_rate(st, from, to, api, dbOk)
         IN  IF ~Truthy(r.rate)
             THEN [st |-> r.st, raised |-> TRUE, amount |-> None,
                   rate |-> r.rate, calls |-> r.calls, by |-> r.by]
             ELSE LET converted ==
                         quantize(Mul(amount, r.rate),
                                  get_currency_decimal_places(r.st, to),
                                  "ROUND_HALF_UP")
                  IN  [st |-> log_conversion(r.st, from, to, amount,
                                  converted, r.rate, context, logOk),
                       raised |-> FALSE, amount |-> converted,
                       rate |-> r.rate, calls |-> r.calls, by |-> r.by]

\* the states of the rate provider: every rate served; the same with rates
\* of seven decimals; no USD to ARS rate; only the rates to ARS, as the
\* response the tests mock; no rate at all (an error response or a
\* RequestException); every request raising another exception; and, for a
\* later fetch, "moved": every rate served, USD to ARS having moved to 8
Providers == {"up", "precise", "partial", "ars_only", "down", "error"}

ProviderRate(name, from, to) ==
    IF name = "down" THEN None
    ELSE IF name = "error" THEN Raised
    ELSE IF name = "ars_only"
    THEN (IF to = "ARS" THEN Decimal(4, 0) ELSE None)
    ELSE IF from = to THEN Decimal(1, 0)
    ELSE IF <<from, to>> = <<"USD", "ARS">>
    THEN (IF name = "partial" THEN None
          ELSE IF name = "precise" THEN Decimal(40000005, 7)
          ELSE IF name = "moved" THEN Decimal(8, 0)
          ELSE Decimal(4, 0))
    ELSE IF <<from, to>> = <<"ARS", "USD">>
    THEN (IF name = "precise" THEN Decimal(2500005, 7) ELSE Decimal(25, 2))
    ELSE IF <<from, to>> = <<"CLP", "USD">> THEN Decimal(5, 1)
    ELSE IF <<from, to>> = <<"USD", "CLP">> THEN Decimal(2, 0)
    ELSE IF <<from, to>> = <<"CLP", "ARS">> THEN Decimal(2, 0)
    ELSE Decimal(5, 1)

\* settings.EXCHANGE_RATE_API_KEY set, and what the provider answers
Provider(name) ==
    [api_key |-> TRUE,
     rates |-> [p \in CurrencyCodes \X CurrencyCodes |->
                   ProviderRate(name, p[1], p[2])]]

LedgerFrame ==
    UNCHANGED <<opening, balance, txs, categories, purchases, debits, today,
                procs, rowlock>>

\* CurrencyService.get_exchange_rate(from, to)
GetExchangeRate(from, to, api, dbOk) ==
    LET r == get_exchange_rate(fx, from, to, Provider(api), dbOk)
    IN  /\ fx' = r.st
        /\ ops' = ops + 1
        /\ last' = [op |-> "get_exchange_rate", from |-> from, to |-> to,
                    api |-> api, dbOk |-> dbOk, rate |-> r.rate,
                    calls |-> r.calls, by |-> r.by, pre |-> fx]
        /\ LedgerFrame

\* CurrencyService.convert_amount(amount, from, to)
ConvertAmount(amount, from, to, api, dbOk, logOk) ==
    LET r == convert_amount(fx, amount, from, to, "conversion",
                            Provider(api), dbOk, logOk)
    IN  /\ fx' = r.st
        /\ ops' = ops + 1
        /\ last' = [op |-> "convert_amount", amount |-> amount,
                    from |-> from, to |-> to, api |-> api, dbOk |-> dbOk,
                    logOk |-> logOk, raised |-> r.raised,
                    result |-> r.amount, rate |-> r.rate, calls |-> r.calls,
                    by |-> r.by, pre |-> fx]
        /\ LedgerFrame

\* half a day passes: cache_ttl is over for every entry of the cache
Elapse ==
    /\ fx' = [fx EXCEPT !.now = @ + HOURS \div 2,
                        !.cache = [p \in Pairs |-> None]]
    /\ ops' = ops + 1
    /\ last' = [op |-> "elapse", pre |-> fx]
    /\ LedgerFrame

\* Currency.objects.filter(is_active=True).order_by('code')
CodeOrder == <<"ARS", "CLP", "USD">>

\* the body of the loop of refresh_all_rates for one currency
refresh_rates_of(acc, code, api, dbOk) ==
    IF code \notin DOMAIN acc.st.currencies \/ code = "ARS" THEN acc
    ELSE LET to_base   == fetch_rate_from_api(api, code, "ARS")
             st1       == IF Truthy(to_base.rate)
                          THEN save_rate_to_db(acc.st, code, "ARS",
                                               to_base.rate, dbOk)
                          ELSE acc.st
             from_base == fetch_rate_from_api(api, "ARS", code)
             st2       == IF Truthy(from_base.rate)
                          THEN save_rate_to_db(st1, "ARS", code,
                                               from_base.rate, dbOk)
                          ELSE st1
         IN  [st |-> st2,
              updated |-> acc.updated
                            + (IF Truthy(to_base.rate) THEN 1 ELSE 0)
                            + (IF Truthy(from_base.rate) THEN 1 ELSE 0),
              calls |-> acc.calls \o to_base.calls \o from_base.calls]

RECURSIVE refresh_loop(_, _, _, _)
refresh_loop(acc, i, api, dbOk) ==
    IF i > Len(CodeOrder) THEN acc
    ELSE refresh_loop(refresh_rates_of(acc, CodeOrder[i], api, dbOk),
                      i + 1, api, dbOk)

\* refresh_all_rates
refresh_all_rates(st, api, dbOk) ==
    refresh_loop([st |-> st, updated |-> 0, calls |-> <<>>], 1, api, dbOk)

\* CurrencyService.refresh_all_rates()
RefreshAllRates(api, dbOk) ==
    LET r == refresh_all_rates(fx, Provider(api), dbOk)
    IN  /\ fx' = r.st
        /\ ops' = ops + 1
        /\ last' = [op |-> "refresh_all_rates", api |-> api, dbOk |-> dbOk,
                    updated |-> r.updated, calls |-> r.calls, pre |-> fx]
        /\ LedgerFrame

\* a rate added by hand in the admin, dated now; unique_together of
\* (from_currency, to_currency, date) rejects a second row of one instant
InsertRate(from, to, rate) ==
    /\ ~\E r \in fx.rates : /\ r.from_currency = from /\ r.to_currency = to
                            /\ r.date = fx.now
    /\ fx' = [fx EXCEPT !.rates =
                 @ \cup {ExchangeRate(from, to, rate, fx.now, "manual")}]
    /\ ops' = ops + 1
    /\ last' = [op |-> "insert_rate", from |-> from, to |-> to,
                rate |-> rate, pre |-> fx]
    /\ LedgerFrame

\* ------------------------------------------------------------ specifications
Procs == {"p1", "p2"}

InitWith(dates, debitRows) ==
    /\ opening \in [Accounts -> OpeningBalances]
    /\ opening["a2"] = 0 /\ opening["a3"] = 0
    /\ balance = opening
    /\ txs = {}
    /\ categories = InitCategories
    /\ purchases = {}
    /\ today \in dates
    /\ debits \in debitRows[today]
    /\ ops = 0
    /\ procs = [p \in Procs |-> [pc |-> "idle"]]
    /\ rowlock = [a \in Accounts |-> Null]
    /\ fx = NoCurrencyData
    /\ last = [op |-> "init", ok |-> TRUE, user |-> Null, obj |-> Null,
               data |-> Null, fail |-> 0,
               pre |-> [balance |-> balance, txs |-> {},
                        categories |-> InitCategories, purchases |-> {},
                        debits |-> debits],
               today |-> today]

\* the ledger with one daily or monthly debit on the bank account
LedgerDebits ==
  [now \in {<<2024, 1, 31>>} |->
    { [d \in {"d1"} |->
          NewAutoDebit("u1", "a1", Category("u1", "Comida", "expense"), 50,
                       f, now, NullDate, 0)]
      : f \in {"daily", "monthly"} }]

Init == InitWith({<<2024, 1, 31>>}, LedgerDebits)

Next ==
    \/ \E u \in RequestUsers, d \in LedgerData :
          ops < MaxOps /\ Post(u, d, 0)
    \/ \E u \in RequestUsers, t \in txs : \E d \in UpdateData(t) :
          ops < MaxOps /\ Update(u, t, d)
    \/ \E u \in RequestUsers, t \in txs : ops < MaxOps /\ Delete(u, t)
    \/ \E u \in RequestUsers, t \in txs : ops < MaxOps /\ Confirm(u, t)
    \/ \E u \in RequestUsers, d \in PurchaseData :
          ops < MaxOps /\ CreateCardPurchase(u, d)
    \/ \E p \in purchases, n \in 0..3 : ops < MaxOps /\ PayInstallment(p, n)
    \/ \E u \in RequestUsers, p \in purchases : ops < MaxOps /\ PayEarly(u, p)
    \/ \E u \in RequestUsers, id \in DOMAIN debits :
          ops < MaxOps /\ ExecuteAutoDebit(u, id)
    \/ ops < MaxOps /\ Tick

Spec == Init /\ [][Next]_vars

\* posting alone, over every request body
NextPost ==
    \E u \in RequestUsers, d \in PostData, f \in 0..5 :
        ops < MaxPosts /\ Post(u, d, f)

SpecPost == Init /\ [][NextPost]_vars

\* the automatic debits alone, over every frequency and anchor
DebitDates == { <<2024, 1, 31>>, <<2024, 2, 29>>, <<2023, 12, 31>>,
                <<2023, 4, 30>> }

DebitRows ==
  [now \in DebitDates |->
    { [d \in {"d1"} |->
          NewAutoDebit("u1", a, Category("u1", "Comida", "expense"), 50,
                       f, start, end, dom)]
      : a \in {"a1", "a2"}, f \in FREQUENCY_CHOICES,
        start \in {now, NextDay(now)}, end \in {NullDate, AddDays(now, 2)},
        dom \in {0, 15, 31} }]

InitDebit == InitWith(DebitDates, DebitRows)

NextDebit ==
    \/ \E u \in RequestUsers, id \in DOMAIN debits :
          ops < MaxDebitOps /\ ExecuteAutoDebit(u, id)
    \/ \E u \in RequestUsers, id \in DOMAIN debits :
          ops < MaxDebitOps /\ Pause(u, id)
    \/ \E u \in RequestUsers, id \in DOMAIN debits :
          ops < MaxDebitOps /\ Resume(u, id)
    \/ ops < MaxDebitOps /\ Tick

SpecDebit == InitDebit /\ [][NextDebit]_vars

\* the batch pass over two debits, of which some are paused, cancelled, not
\* yet due or past their end date
BatchDate == <<2024, 1, 31>>

\* start_date, end_date of a debit: running, ended yesterday, starting tomorrow
BatchPeriods ==
    { <<BatchDate, NullDate>>,
      <<<<2024, 1, 29>>, <<2024, 1, 30>>>>,
      <<NextDay(BatchDate), NullDate>> }

BatchDebit(a, amount, st, period) ==
    [NewAutoDebit("u1", a, Category("u1", "Comida", "expense"), amount,
                  "daily", period[1], period[2], 0) EXCEPT !.status = st]

BatchRows ==
  [now \in {BatchDate} |->
    { [d \in {"d1", "d2"} |->
          IF d = "d1" THEN BatchDebit(a1, 50, s1, p1)
          ELSE BatchDebit(a2, 100, s2, p2)]
      : a1 \in {"a1", "a2"}, a2 \in {"a1", "a2"},
        s1 \in {"active", "paused"}, s2 \in {"active", "cancelled"},
        p1 \in BatchPeriods, p2 \in BatchPeriods }]

InitBatch == InitWith({BatchDate}, BatchRows)

NextBatch ==
    \/ \E o \in Orders(DOMAIN debits) \cup Orders({"d1"}) \cup Orders({"d2"}) :
          ops < MaxBatchOps /\ ProcessAutoDebits(o)
    \/ \E u \in RequestUsers, id \in DOMAIN debits :
          ops < MaxBatchOps /\ Resume(u, id)
    \/ ops < MaxBatchOps /\ Tick

SpecBatch == InitBatch /\ [][NextBatch]_vars

\* card purchases and their payments
CardData ==
    [account : {"a1", "a2"}, total_amount : Principals, currency : {"ARS"},
     total_installments : {2, 3}, interest_rate : InterestRates,
     purchase_date : {today},
     first_installment_date : {today, AddMonths(today, 1)},
     status : {"active", "cancelled"}]

NextCard ==
    \/ \E u \in RequestUsers, d \in CardData :
          ops < MaxCardOps /\ CreateCardPurchase(u, d)
    \/ \E p \in purchases, n \in 0..4 : ops < MaxCardOps /\ PayInstallment(p, n)
    \/ \E u \in RequestUsers, p \in purchases : ops < MaxCardOps /\ PayEarly(u, p)

SpecCard == Init /\ [][NextCard]_vars

\* card purchases paid by installment only
NextPay ==
    \/ \E u \in RequestUsers, d \in CardData :
          ops < MaxCardOps /\ CreateCardPurchase(u, d)
    \/ \E p \in purchases, n \in 0..4 : ops < MaxCardOps /\ PayInstallment(p, n)

SpecPay == Init /\ [][NextPay]_vars

\* ------------------------------------------- the rates of the currency app
\* the rates of one pair in table exchange_rates: one of today or none, one of
\* the day before within 24 hours or none, an older one or none
RateRows(from, to, todays, yesterdays, olders) ==
    { ({ ExchangeRate(from, to, x, 36, "manual") : x \in {t} \ {None} }
       \cup { ExchangeRate(from, to, x, 20, "api") : x \in {y} \ {None} }
       \cup { ExchangeRate(from, to, x, 4, "api") : x \in {o} \ {None} })
      : <<t, y, o>> \in todays \X yesterdays \X olders }

\* the ledger idle, the cache empty, rates of USD to ARS and of ARS to USD
InitFx(direct, reversed) ==
    /\ opening = [a \in Accounts |-> 0]
    /\ balance = opening
    /\ txs = {}
    /\ categories = InitCategories
    /\ purchases = {}
    /\ today = <<2024, 1, 31>>
    /\ debits = << >>
    /\ ops = 0
    /\ procs = [p \in Procs |-> [pc |-> "idle"]]
    /\ rowlock = [a \in Accounts |-> Null]
    /\ \E d \in direct, r \in reversed :
           fx = [NoCurrencyData EXCEPT !.rates = d \cup r]
    /\ last = [op |-> "init", pre |-> fx]

ResolvePairs == {<<"USD", "ARS">>, <<"ARS", "USD">>, <<"CLP", "ARS">>}

InitResolve ==
    InitFx(RateRows("USD", "ARS", {None, Decimal(0, 0), Decimal(4, 0)},
                    {None, Decimal(2, 0)}, {None, Decimal(8, 0)}),
           RateRows("ARS", "USD", {None, Decimal(0, 0)},
                    {None, Decimal(5, 1)}, {None}))

NextResolve ==
    \/ /\ ops < MaxFxOps
       /\ \E p \in ResolvePairs, api \in Providers, dbOk \in BOOLEAN :
              GetExchangeRate(p[1], p[2], api, dbOk)
    \/ /\ ops < MaxFxOps
       /\ Elapse

SpecResolve == InitResolve /\ [][NextResolve]_vars

\* the conversions requested: between two currencies, and within one
ConvertRequests ==
    ({Decimal(10, 0), Decimal(249, 2), Decimal(12345, 3)}
        \X {<<"USD", "ARS">>, <<"ARS", "USD">>, <<"USD", "CLP">>})
    \cup ({Decimal(123456789, 6), Decimal(10, 0)}
        \X {<<"ARS", "ARS">>, <<"USD", "USD">>})

InitConvert ==
    InitFx(RateRows("USD", "ARS", {None, Decimal(4, 0)}, {None},
                    {None, Decimal(8, 0)}),
           RateRows("ARS", "USD", {None, Decimal(0, 0)},
                    {None, Decimal(5, 1)}, {None}))

NextConvert ==
    \/ /\ ops < MaxConvertOps
       /\ \E q \in ConvertRequests, api \in {"up", "partial", "down"},
             dbOk \in BOOLEAN, logOk \in BOOLEAN :
              ConvertAmount(q[1], q[2][1], q[2][2], api, dbOk, logOk)
    \/ /\ ops < MaxConvertOps
       /\ Elapse

SpecConvert == InitConvert /\ [][NextConvert]_vars

\* resolve, refresh, rates added by hand and cache expiry, from a table
\* with at most one rate, of the day before
InitCache ==
    InitFx(RateRows("USD", "ARS", {None}, {None, Decimal(2, 0)}, {None}),
           RateRows("ARS", "USD", {None}, {None}, {None}))

NextCache ==
    \/ /\ ops < MaxCacheOps
       /\ \E p \in ResolvePairs, api \in {"up", "down"}, dbOk \in BOOLEAN :
              GetExchangeRate(p[1], p[2], api, dbOk)
    \/ /\ ops < MaxCacheOps
       /\ \E api \in {"up", "down"}, dbOk \in BOOLEAN :
              RefreshAllRates(api, dbOk)
    \/ /\ ops < MaxCacheOps
       /\ \E rate \in {Decimal(4, 0), Decimal(8, 0)} :
              InsertRate("USD", "ARS", rate)
    \/ /\ ops < MaxCacheOps
       /\ Elapse

SpecCache == InitCache /\ [][NextCache]_vars

\* resolve and refresh while the market moves, from a table whose rates are
\* positive, one a day at most
InitRates ==
    InitFx(RateRows("USD", "ARS", {None, Decimal(4, 0)}, {None, Decimal(2, 0)},
                    {None}),
           RateRows("ARS", "USD", {None}, {None, Decimal(5, 1)}, {None}))

NextRates ==
    \/ /\ ops < MaxRateOps
       /\ \E p \in ResolvePairs, api \in {"up", "moved", "down"},
             dbOk \in BOOLEAN :
              GetExchangeRate(p[1], p[2], api, dbOk)
    \/ /\ ops < MaxRateOps
       /\ \E api \in {"up", "moved", "down"}, dbOk \in BOOLEAN :
              RefreshAllRates(api, dbOk)
    \/ /\ ops < MaxRateOps
       /\ Elapse

SpecRates == InitRates /\ [][NextRates]_vars

\* ------------------------------------------- requests served concurrently
\* Each worker serves one POST /transactions.  The account objects are read
\* by is_valid() before the atomic block of create() opens; every save() is
\* an UPDATE of the row to the value the object holds, taking the row lock
\* until the commit.  Rows and balances written inside the block are seen by
\* the others at the commit.
ConcData ==
    { [account |-> "a1", category |-> Category("u1", "Comida", "expense"),
       target_account |-> Null, amount |-> 50, currency |-> "ARS",
       transaction_type |-> "expense", origin |-> "manual",
       is_confirmed |-> TRUE],
      [account |-> "a1", category |-> Category("u1", "Sueldo", "income"),
       target_account |-> Null, amount |-> 30, currency |-> "ARS",
       transaction_type |-> "income", origin |-> "manual",
       is_confirmed |-> TRUE],
      [account |-> "a1", category |-> Category("u1", "Comida", "expense"),
       target_account |-> "a2", amount |-> 50, currency |-> "ARS",
       transaction_type |-> "transfer", origin |-> "manual",
       is_confirmed |-> TRUE],
      [account |-> "a2", category |-> Category("u1", "Comida", "expense"),
       target_account |-> "a1", amount |-> 50, currency |-> "ARS",
       transaction_type |-> "transfer", origin |-> "manual",
       is_confirmed |-> TRUE],
      [account |-> "a3", category |-> Category("u1", "Comida", "expense"),
       target_account |-> Null, amount |-> 50, currency |-> "ARS",
       transaction_type |-> "expense", origin |-> "manual",
       is_confirmed |-> TRUE] }

\* rows inserted by the workers and not committed yet
PendingRows == UNION { procs[q].rows : q \in { r \in Procs : procs[r].pc # "idle" } }

ConcFrame == UNCHANGED <<opening, purchases, debits, today, ops, fx, last>>

\* serializer.is_valid(): validate, with the account objects it loaded
ConcValidate(p, user, data) ==
    /\ procs[p].pc = "idle"
    /\ procs' = [procs EXCEPT ![p] =
          [pc |-> IF validate(data, user) THEN "insert" ELSE "done",
           ok |-> FALSE, user |-> user, data |-> data,
           acct |-> balance[data.account],
           tgt |-> IF data.target_account # Null
                   THEN balance[data.target_account] ELSE 0,
           rows |-> {}, cats |-> {}]]
    /\ UNCHANGED <<balance, txs, categories, rowlock>>
    /\ ConcFrame

\* create: super().create(validated_data)
ConcInsert(p) ==
    /\ procs[p].pc = "insert"
    /\ LET seen == [DB EXCEPT !.txs = @ \cup PendingRows]
       IN  /\ FreeIds(seen) # {}
           /\ procs' = [procs EXCEPT
                 ![p].rows = {NewTransaction(seen, procs[p].data, procs[p].user)},
                 ![p].pc = "save"]
    /\ UNCHANGED <<balance, txs, categories, rowlock>>
    /\ ConcFrame

\* create: _update_account_balance(transaction_obj, 'add')
ConcSaveBalance(p) ==
    /\ procs[p].pc = "save"
    /\ rowlock[procs[p].data.account] \in {Null, p}
    /\ rowlock' = [rowlock EXCEPT ![procs[p].data.account] = p]
    /\ procs' = [procs EXCEPT
          ![p].acct = update_account_balance(@,
                          procs[p].data.transaction_type,
                          procs[p].data.amount, "add"),
          ![p].pc = IF procs[p].data.transaction_type = "transfer"
                    THEN "counterpart" ELSE "commit"]
    /\ UNCHANGED <<balance, txs, categories>>
    /\ ConcFrame

\* _create_transfer_counterpart: the category and the income row
ConcCounterpart(p) ==
    /\ procs[p].pc = "counterpart"
    /\ LET seen == [DB EXCEPT !.txs = @ \cup PendingRows]
           t    == CHOOSE x \in procs[p].rows : TRUE
       IN  /\ FreeIds(seen) # {}
           /\ procs' = [procs EXCEPT
                 ![p].cats = {TransferCategory(procs[p].user)} \ categories,
                 ![p].rows = @ \cup {Counterpart(seen, t)},
                 ![p].pc = "target"]
    /\ UNCHANGED <<balance, txs, categories, rowlock>>
    /\ ConcFrame

\* _create_transfer_counterpart: target_account.save(update_fields=['balance'])
ConcSaveTarget(p) ==
    /\ procs[p].pc = "target"
    /\ rowlock[procs[p].data.target_account] \in {Null, p}
    /\ rowlock' = [rowlock EXCEPT ![procs[p].data.target_account] = p]
    /\ procs' = [procs EXCEPT ![p].tgt = @ + procs[p].data.amount,
                              ![p].pc = "commit"]
    /\ UNCHANGED <<balance, txs, categories>>
    /\ ConcFrame

\* the atomic block of create ends: COMMIT
ConcCommit(p) ==
    /\ procs[p].pc = "commit"
    /\ balance' = [a \in Accounts |->
          IF a = procs[p].data.account THEN procs[p].acct
          ELSE IF procs[p].data.transaction_type = "transfer"
                  /\ a = procs[p].data.target_account THEN procs[p].tgt
          ELSE balance[a]]
    /\ txs' = txs \cup procs[p].rows
    /\ categories' = categories \cup procs[p].cats
    /\ rowlock' = [a \in Accounts |-> IF rowlock[a] = p THEN Null ELSE rowlock[a]]
    /\ procs' = [procs EXCEPT ![p].pc = "done", ![p].ok = TRUE]
    /\ ConcFrame

\* the row the next statement of worker p has to lock, or Null
Wanted(p) ==
    IF procs[p].pc = "save" THEN procs[p].data.account
    ELSE IF procs[p].pc = "target" THEN procs[p].data.target_account
    ELSE Null

\* p waits for a row whose lock q holds
WaitsFor(p, q) ==
    /\ p # q
    /\ Wanted(p) # Null
    /\ rowlock[Wanted(p)] = q

\* the database finds p and another worker waiting for each other and
\* aborts p: its statement raises, the atomic block of create rolls back
ConcDeadlockAbort(p) ==
    /\ \E q \in Procs : WaitsFor(p, q) /\ WaitsFor(q, p)
    /\ rowlock' = [a \in Accounts |-> IF rowlock[a] = p THEN Null ELSE rowlock[a]]
    /\ procs' = [procs EXCEPT ![p].pc = "done", ![p].ok = FALSE,
                              ![p].rows = {}, ![p].cats = {}]
    /\ UNCHANGED <<balance, txs, categories>>
    /\ ConcFrame

NextConc ==
    \/ \E p \in Procs, u \in RequestUsers, d \in ConcData : ConcValidate(p, u, d)
    \/ \E p \in Procs : ConcInsert(p)
    \/ \E p \in Procs : ConcSaveBalance(p)
    \/ \E p \in Procs : ConcCounterpart(p)
    \/ \E p \in Procs : ConcSaveTarget(p)
    \/ \E p \in Procs : ConcCommit(p)
    \/ \E p \in Procs : ConcDeadlockAbort(p)

SpecConc == Init /\ [][NextConc]_vars

\* ------------------------------------ one debit executed by two workers
\* Each worker runs AutoDebitViewSet.execute ("view") or the loop body of
\* execute_pending_debits ("batch") on debit d1.  The worker reads the
\* auto_debit row first; the view's query joins the account row
\* (select_related), the batch reads it when execute_auto_debit first uses
\* auto_debit.account.  No read takes a lock.  The writes of the atomic block
\* are seen by the other worker at the commit.
ConcDebit == "d1"

\* get_object / the iteration of pending_debits: the auto_debit object
DebitLoad(p, via) ==
    /\ procs[p].pc = "idle"
    /\ via = "batch" => ConcDebit \in pending_debits(DB, today)
    /\ procs' = [procs EXCEPT ![p] =
          [pc |-> "loaded", ok |-> FALSE, via |-> via,
           obj |-> debits[ConcDebit],
           acct |-> balance[debits[ConcDebit].account],
           rows |-> {}, cats |-> {}]]
    /\ UNCHANGED <<balance, txs, categories, rowlock>>
    /\ ConcFrame

\* execute_auto_debit up to the check of the funds (services.py 24-33)
DebitBegin(p) ==
    /\ procs[p].pc = "loaded"
    /\ LET o    == procs[p].obj
           acct == IF procs[p].via = "view" THEN procs[p].acct
                   ELSE balance[o.account]
       IN  procs' = [procs EXCEPT
              ![p].acct = acct,
              ![p].pc = IF /\ can_execute(o, today)
                           /\ \/ acct >= o.amount
                              \/ allows_negative_balance(o.account)
                        THEN "insert" ELSE "done"]
    /\ UNCHANGED <<balance, txs, categories, rowlock>>
    /\ ConcFrame

\* Transaction.objects.create (services.py 36-48)
DebitInsert(p) ==
    /\ procs[p].pc = "insert"
    /\ LET seen == [DB EXCEPT !.txs = @ \cup PendingRows]
           o    == procs[p].obj
       IN  /\ FreeIds(seen) # {}
           /\ procs' = [procs EXCEPT
                 ![p].rows = {Transaction(FreshId(seen), o.user, o.account,
                                 o.category, Null, today, o.amount,
                                 o.currency, "expense", "auto_debit", TRUE,
                                 0, ConcDebit, 0)},
                 ![p].pc = "save"]
    /\ UNCHANGED <<balance, txs, categories, rowlock>>
    /\ ConcFrame

\* account.balance -= amount; account.save (services.py 51-52): the UPDATE
\* waits for the row lock and holds it until the commit
DebitSaveBalance(p) ==
    /\ procs[p].pc = "save"
    /\ rowlock[procs[p].obj.account] \in {Null, p}
    /\ rowlock' = [rowlock EXCEPT ![procs[p].obj.account] = p]
    /\ procs' = [procs EXCEPT ![p].acct = @ - procs[p].obj.amount,
                              ![p].pc = "schedule"]
    /\ UNCHANGED <<balance, txs, categories>>
    /\ ConcFrame

\* the new schedule of the auto_debit object and its save (services.py 55-62)
DebitSaveSchedule(p) ==
    /\ procs[p].pc = "schedule"
    /\ LET o1 == [procs[p].obj EXCEPT !.last_execution = today,
                                      !.execution_count = @ + 1,
                                      !.failed_attempts = 0]
       IN  procs' = [procs EXCEPT
              ![p].obj = [o1 EXCEPT !.next_execution =
                                       calculate_next_execution(o1)],
              ![p].pc = "commit"]
    /\ UNCHANGED <<balance, txs, categories, rowlock>>
    /\ ConcFrame

\* the atomic block of execute_auto_debit ends: COMMIT
DebitCommit(p) ==
    /\ procs[p].pc = "commit"
    /\ balance' = [balance EXCEPT ![procs[p].obj.account] = procs[p].acct]
    /\ txs' = txs \cup procs[p].rows
    /\ debits' = [debits EXCEPT ![ConcDebit] =
          [@ EXCEPT !.last_execution = procs[p].obj.last_execution,
                    !.execution_count = procs[p].obj.execution_count,
                    !.failed_attempts = procs[p].obj.failed_attempts,
                    !.next_execution = procs[p].obj.next_execution]]
    /\ rowlock' = [a \in Accounts |-> IF rowlock[a] = p THEN Null ELSE rowlock[a]]
    /\ procs' = [procs EXCEPT ![p].pc = "done", ![p].ok = TRUE]
    /\ UNCHANGED <<opening, categories, purchases, today, ops, fx, last>>

NextDebitConc ==
    \/ \E p \in Procs, via \in {"view", "batch"} : DebitLoad(p, via)
    \/ \E p \in Procs : DebitBegin(p)
    \/ \E p \in Procs : DebitInsert(p)
    \/ \E p \in Procs : DebitSaveBalance(p)
    \/ \E p \in Procs : DebitSaveSchedule(p)
    \/ \E p \in Procs : DebitCommit(p)

\* one debit on either account, due or not, with or without funds
ConcDebitRows ==
  [now \in {<<2024, 1, 31>>} |->
    { [d \in {ConcDebit} |->
          NewAutoDebit("u1", a, Category("u1", "Comida", "expense"), 50,
                       f, start, NullDate, 0)]
      : a \in {"a1", "a2"}, f \in {"daily", "monthly"},
        start \in {now, NextDay(now)} }]

InitDebitConc == InitWith({<<2024, 1, 31>>}, ConcDebitRows)

SpecDebitConc == InitDebitConc /\ [][NextDebitConc]_vars

\* ------------------------------------------------------------------ claims
\* rows the last operation inserted
Inserted == txs \ last.pre.txs

\* the rows that mirror the last posted transfer on its target account
Mirrors ==
    { t \in Inserted : /\ t.account = last.data.target_account
                       /\ t.transaction_type = "income"
                       /\ t.origin = "transfer"
                       /\ t.amount = last.data.amount
                       /\ t.currency = last.data.currency }

\* C1: posting a confirmed transaction of amount X adds X to the account for
\* an income, subtracts X for an expense, and for a transfer subtracts X from
\* the source, adds X to the target and inserts exactly one mirrored income
\* row (origin transfer, same amount and currency) on the target; no other
\* balance changes and no other row is inserted or removed.
C1_PostEffect ==
    (last.op = "post" /\ last.ok /\ last.data.is_confirmed) =>
        LET d == last.data
            X == d.amount
            B == last.pre.balance
        IN  /\ last.pre.txs \subseteq txs
            /\ d.transaction_type = "income" =>
                  /\ balance = [B EXCEPT ![d.account] = @ + X]
                  /\ Cardinality(Inserted) = 1
            /\ d.transaction_type = "expense" =>
                  /\ balance = [B EXCEPT ![d.account] = @ - X]
                  /\ Cardinality(Inserted) = 1
            /\ d.transaction_type = "transfer" =>
                  /\ balance = [B EXCEPT ![d.account] = @ - X,
                                         ![d.target_account] = @ + X]
                  /\ Cardinality(Mirrors) = 1
                  /\ Cardinality(Inserted) = 2

C1_Witness ==
    /\ last.op = "post" /\ last.ok /\ last.data.is_confirmed
    /\ last.data.transaction_type = "transfer"
    /\ last.data.currency = "USD"
    /\ balance[last.data.target_account] = 50

\* the last posting request breaks one of the ownership or shape rules: its
\* account, category or target account belongs to another owner, the type of
\* its category differs from the type of an income or expense, or it is a
\* transfer without a target or onto its own account
BreaksRule ==
    LET d == last.data
    IN  \/ AccountUser(d.account) # last.user
        \/ d.category.user # last.user
        \/ d.target_account # Null /\ AccountUser(d.target_account) # last.user
        \/ /\ d.transaction_type \in {"income", "expense"}
           /\ d.category.transaction_type # d.transaction_type
        \/ /\ d.transaction_type = "transfer"
           /\ d.target_account \in {Null, d.account}

\* C7: a posting request that breaks an ownership or shape rule is rejected,
\* no row is recorded and no balance changes.
C7_RejectedBeforeMutation ==
    (last.op = "post" /\ BreaksRule) =>
        /\ ~last.ok
        /\ txs = last.pre.txs
        /\ balance = last.pre.balance

\* C8: a post in which a write fails after validation leaves no row of that
\* post and leaves every balance as it was before the post.
C8_AllOrNothing ==
    (last.op = "post" /\ last.fail > 0) =>
        /\ Inserted = {}
        /\ txs = last.pre.txs
        /\ balance = last.pre.balance
        /\ categories = last.pre.categories

C8_Witness ==
    /\ last.op = "post" /\ last.fail = 5
    /\ last.data.transaction_type = "transfer"

\* the debit the last execution was asked for, before and after it
DebitBefore == last.pre.debits[last.obj]
DebitAfter == debits[last.obj]

\* the last operation executed a due debit the account cannot absorb
ExecutedShort ==
    /\ last.op = "executeAutoDebit"
    /\ can_execute(DebitBefore, last.today)
    /\ last.pre.balance[DebitBefore.account] < DebitBefore.amount
    /\ ~allows_negative_balance(DebitBefore.account)

\* the last operation executed a due debit the account can absorb
ExecutedFunded ==
    /\ last.op = "executeAutoDebit"
    /\ can_execute(DebitBefore, last.today)
    /\ \/ last.pre.balance[DebitBefore.account] >= DebitBefore.amount
       \/ allows_negative_balance(DebitBefore.account)

\* C9: executing a due debit on an account that has less than the amount and
\* may not go negative fails, and afterwards the stored failed_attempts is one
\* more than before, next_execution, last_execution and execution_count are
\* unchanged, no transaction was posted and the balance is unchanged.
C9_InsufficientFunds ==
    ExecutedShort =>
        /\ ~last.ok
        /\ DebitAfter.failed_attempts = DebitBefore.failed_attempts + 1
        /\ DebitAfter.next_execution = DebitBefore.next_execution
        /\ DebitAfter.last_execution = DebitBefore.last_execution
        /\ DebitAfter.execution_count = DebitBefore.execution_count
        /\ txs = last.pre.txs
        /\ balance = last.pre.balance

\* the n-th month after the month of date d, as <<year, month>>
MonthsAfter(d, n) ==
    IF d[2] + n > 12 THEN <<d[1] + 1, d[2] + n - 12>> ELSE <<d[1], d[2] + n>>

\* day k of month ym, or the last day of ym when it has fewer than k days
DayOrLast(ym, k) == <<ym[1], ym[2], Min(k, DaysInMonth(ym[1], ym[2]))>>

\* the frequency rule of the auto-debit scheduler, anchored on date d
FrequencyRule(frequency, day_of_month, d) ==
    CASE frequency = "daily"     -> NextDay(d)
      [] frequency = "weekly"    -> AddDays(d, 7)
      [] frequency = "biweekly"  -> AddDays(d, 14)
      [] frequency = "monthly"   ->
            IF day_of_month # 0
            THEN DayOrLast(MonthsAfter(d, 1), Min(day_of_month, 28))
            ELSE DayOrLast(MonthsAfter(d, 1), d[3])
      [] frequency = "quarterly" -> DayOrLast(MonthsAfter(d, 3), d[3])
      [] frequency = "yearly"    -> DayOrLast(<<d[1] + 1, d[2]>>, d[3])

\* C10: executing a due debit the account can absorb posts exactly one
\* confirmed expense with origin auto_debit, takes the amount off the balance,
\* sets last_execution to today, adds one to execution_count, resets
\* failed_attempts and sets next_execution by the frequency rule applied to
\* the new last_execution.
C10_ExecuteSuccess ==
    ExecutedFunded =>
        LET d == DebitBefore
        IN  /\ last.ok
            /\ last.pre.txs \subseteq txs
            /\ Cardinality(Inserted) = 1
            /\ \A t \in Inserted :
                  /\ t.transaction_type = "expense"
                  /\ t.origin = "auto_debit"
                  /\ t.is_confirmed
                  /\ t.amount = d.amount
                  /\ t.account = d.account
                  /\ t.auto_debit = last.obj
            /\ balance = [last.pre.balance EXCEPT ![d.account] = @ - d.amount]
            /\ DebitAfter.last_execution = last.today
            /\ DebitAfter.execution_count = d.execution_count + 1
            /\ DebitAfter.failed_attempts = 0
            /\ DebitAfter.next_execution =
                  FrequencyRule(d.frequency, d.day_of_month, last.today)

C10_Witness ==
    /\ ExecutedFunded /\ last.ok
    /\ DebitBefore.frequency = "monthly" /\ DebitBefore.day_of_month = 31
    /\ last.today = <<2024, 1, 31>>
    /\ DebitAfter.next_execution = <<2024, 2, 28>>

\* the debits the last batch pass attempted, and those of them it executed
Attempted == { last.obj[i] : i \in 1..Len(last.obj) }
Executed == { id \in Attempted : \E t \in Inserted : t.auto_debit = id }

\* the errors entries of the last batch pass that name debit id
ErrorsOf(id) ==
    { i \in 1..Len(last.data.errors) : last.data.errors[i].auto_debit = id }

RECURSIVE SumAmounts(_, _)
SumAmounts(S, rows) ==
    IF S = {} THEN 0
    ELSE LET id == CHOOSE x \in S : TRUE
         IN  rows[id].amount + SumAmounts(S \ {id}, rows)

\* the attempted debits on account a that the pass could execute
Claimants(a) ==
    { id \in Attempted : /\ last.pre.debits[id].account = a
                         /\ can_execute(last.pre.debits[id], last.today) }

\* C12: in a batch pass every attempted debit is either executed or failed
\* with one errors entry, executed + failed is the number attempted, a
\* success stays applied whatever the others did, and a debit that can be
\* executed and whose account covers every attempted debit on it is executed
\* whatever failed before it.
C12_BatchIndependent ==
    (last.op = "processAutoDebits") =>
        /\ last.data.executed + last.data.failed = Len(last.obj)
        /\ last.data.executed = Cardinality(Executed)
        /\ Len(last.data.errors) = last.data.failed
        /\ \A id \in Attempted :
              Cardinality(ErrorsOf(id)) = (IF id \in Executed THEN 0 ELSE 1)
        /\ \A id \in Executed :
              /\ debits[id].execution_count =
                    last.pre.debits[id].execution_count + 1
              /\ debits[id].last_execution = last.today
              /\ Cardinality({ t \in Inserted : t.auto_debit = id }) = 1
        /\ \A a \in Accounts :
              balance[a] = last.pre.balance[a]
                 - SumAmounts({ id \in Executed : debits[id].account = a },
                              debits)
        /\ \A id \in Attempted :
              LET d == last.pre.debits[id]
              IN  (/\ can_execute(d, last.today)
                   /\ \/ allows_negative_balance(d.account)
                      \/ last.pre.balance[d.account] >=
                            SumAmounts(Claimants(d.account), last.pre.debits))
                  => id \in Executed

C12_Witness ==
    /\ last.op = "processAutoDebits"
    /\ Len(last.obj) = 2
    /\ last.obj[1] \notin Executed
    /\ last.obj[2] \in Executed
    /\ last.data.failed = 1 /\ last.data.executed = 1

\* due, as the scheduler defines it
Due(d, now) ==
    /\ d.status = "active"
    /\ DateLE(d.next_execution, now)
    /\ (d.end_date = NullDate \/ DateLE(now, d.end_date))

\* C13: the batch pass attempts exactly the due debits: executed + failed is
\* the number of due debits, and a debit that is not due is neither executed
\* nor named in errors.
C13_OnlyDueAttempted ==
    (last.op = "processAutoDebits") =>
        LET due == { id \in DOMAIN last.pre.debits :
                        Due(last.pre.debits[id], last.today) }
        IN  /\ last.data.executed + last.data.failed = Cardinality(due)
            /\ \A id \in (DOMAIN last.pre.debits) \ due :
                  /\ debits[id] = last.pre.debits[id]
                  /\ \A t \in Inserted : t.auto_debit # id
                  /\ ErrorsOf(id) = {}

\* the expenses posted for the debit the two workers execute
DebitPostings == { t \in txs : t.auto_debit = ConcDebit /\ t.date = today }

\* C11: when two concurrent executions of the same due debit have finished,
\* at most one expense is posted for it on that date, its account is debited
\* at most once and its execution_count has grown by at most one.
C11_AtMostOnce ==
    (\A p \in Procs : procs[p].pc = "done") =>
        LET d == last.pre.debits[ConcDebit]
        IN  /\ Cardinality(DebitPostings) <= 1
            /\ balance[d.account] >= opening[d.account] - d.amount
            /\ debits[ConcDebit].execution_count <= d.execution_count + 1

\* the effect of a confirmed transaction on the balance of its account
Effect(t) ==
    IF t.transaction_type = "income" THEN t.amount ELSE 0 - t.amount

RECURSIVE SumEffects(_)
SumEffects(S) ==
    IF S = {} THEN 0
    ELSE LET t == CHOOSE x \in S : TRUE
         IN  Effect(t) + SumEffects(S \ {t})

ConfirmedOn(a) == { t \in txs : t.account = a /\ t.is_confirmed }

\* C2: updating the amount of a posted transaction from X to Y on an account
\* with balance B leaves B + X - Y for an expense and B - X + Y for an income.
C2_UpdateNetEffect ==
    (/\ last.op = "update" /\ last.ok
     /\ last.data.account = last.obj.account
     /\ last.data.transaction_type = last.obj.transaction_type
     /\ last.obj.transaction_type \in {"income", "expense"}) =>
        LET a == last.obj.account
            B == last.pre.balance[a]
            X == last.obj.amount
            Y == last.data.amount
        IN  /\ last.obj.transaction_type = "expense" => balance[a] = B + X - Y
            /\ last.obj.transaction_type = "income" => balance[a] = B - X + Y

\* C3: every balance is the opening balance plus the effects of the confirmed
\* transactions of the account.
C3_BalanceIsSumOfEffects ==
    \A a \in Accounts : balance[a] = opening[a] + SumEffects(ConfirmedOn(a))

\* C4: a transaction created unconfirmed leaves the balance as it was, and
\* confirming it (the confirm action or an installment payment) applies its
\* effect to the balance once.
C4_EffectOnConfirmation ==
    /\ (last.op = "post" /\ last.ok /\ ~last.data.is_confirmed) =>
          balance = last.pre.balance
    /\ (last.op = "confirm" /\ ~last.obj.is_confirmed) =>
          balance = [last.pre.balance EXCEPT
                        ![last.obj.account] = @ + Effect(last.obj)]
    /\ (last.op = "payInstallment" /\ last.ok) =>
          \E t \in PendingInstallments(last.pre, last.obj) :
              /\ [t EXCEPT !.is_confirmed = TRUE] \in txs
              /\ balance = [last.pre.balance EXCEPT
                               ![t.account] = @ + Effect(t)]

\* C5: an account whose type does not allow a negative balance never has one.
C5_NonNegative ==
    \A a \in Accounts : ~allows_negative_balance(a) => balance[a] >= 0

\* the effect on account a of the posting that data asks for
PostingEffect(data, a) ==
    IF a = data.account
    THEN (IF data.transaction_type = "income" THEN data.amount
          ELSE 0 - data.amount)
    ELSE IF data.transaction_type = "transfer" /\ a = data.target_account
    THEN data.amount
    ELSE 0

RECURSIVE SumPostings(_, _)
SumPostings(P, a) ==
    IF P = {} THEN 0
    ELSE LET p == CHOOSE x \in P : TRUE
         IN  (IF procs[p].ok THEN PostingEffect(procs[p].data, a) ELSE 0)
             + SumPostings(P \ {p}, a)

\* C6: once two concurrent postings have completed, every balance is the
\* starting balance plus the effects of both.
C6_NoLostUpdate ==
    (\A p \in Procs : procs[p].pc = "done") =>
        \A a \in Accounts : balance[a] = opening[a] + SumPostings(Procs, a)

\* ------------------------------------------------- claims on CurrencyService
\* the persisted rates of the pair dated within the 24 hours before st.now
RecentRates(st, from, to) ==
    { r \in st.rates : /\ r.from_currency = from /\ r.to_currency = to
                       /\ r.date >= st.now - HOURS }

\* the persisted rates of the reversed pair, of any age
ReversedRates(st, from, to) ==
    { r \in st.rates : r.from_currency = to /\ r.to_currency = from }

\* the last operation resolved the rate of two different currencies
Resolved == last.op = "get_exchange_rate" /\ last.from # last.to

\* the provider had a rate to give to the last operation
ExternalGives ==
    fetch_rate_from_api(Provider(last.api), last.from, last.to).rate # None

\* C14: resolving the rate of from # to consults the cache, then the persisted
\* rates of the last 24 hours, then the external source, then the inverse of
\* a reversed rate: a cached rate is the one returned, the external source is
\* not called when the cache or a recent persisted rate has the pair, and the
\* inverse is returned only after the external source gave nothing.
C14_LookupOrder ==
    Resolved =>
        LET cached == last.pre.cache[<<last.from, last.to>>]
            recent == RecentRates(last.pre, last.from, last.to)
        IN  /\ cached # None => last.rate = cached
            /\ (cached # None \/ recent # {}) => last.calls = <<>>
            /\ last.by = "inverse" =>
                   /\ cached = None
                   /\ recent = {}
                   /\ ~ExternalGives

\* C15: for a pair with no cache entry and a persisted rate dated within the
\* last 24 hours, resolving returns the latest such rate r without calling
\* the external source, and afterwards the cache holds r for the pair.
C15_RecentPersistedRate ==
    (/\ Resolved
     /\ last.pre.cache[<<last.from, last.to>>] = None
     /\ RecentRates(last.pre, last.from, last.to) # {}) =>
        LET recent == RecentRates(last.pre, last.from, last.to)
            r == (CHOOSE x \in recent : \A y \in recent : y.date <= x.date).rate
        IN  /\ last.rate = r
            /\ last.calls = <<>>
            /\ fx.cache[<<last.from, last.to>>] = r

\* the persisted rates of the pair dated on the calendar day of st.now
TodaysRates(st, from, to) ==
    { r \in st.rates : /\ r.from_currency = from /\ r.to_currency = to
                       /\ r.date \div HOURS = st.now \div HOURS }

\* C16: when resolving obtains the rate from the external source, on return
\* a persisted rate of the pair dated today holds the fetched value and the
\* cache holds the same value; the cache never gets an external rate that
\* was not persisted.
C16_ExternalRatePersisted ==
    (Resolved /\ last.by = "api") =>
        /\ \E r \in TodaysRates(fx, last.from, last.to) : r.rate = last.rate
        /\ fx.cache[<<last.from, last.to>>] = last.rate

\* x is 1/r, to the sixth decimal of x * r
IsReciprocal(x, r) ==
    /\ x # None
    /\ LET p == [c |-> x.c * r.c, e |-> x.e + r.e]
           one == Pow10(p.e)
           tol == IF p.e >= 6 THEN Pow10(p.e - 6) ELSE 0
       IN  p.c - one <= tol /\ one - p.c <= tol

\* C17: when the cache, the recent persisted rates and the external source
\* all fail for (A, B) and a persisted rate r > 0 of (B, A) exists, of any
\* age, resolving returns 1/r and leaves the cache and the persisted rates
\* as they were; a reversed rate that is not strictly positive is not used.
C17_InverseFallback ==
    (/\ Resolved
     /\ last.pre.cache[<<last.from, last.to>>] = None
     /\ RecentRates(last.pre, last.from, last.to) = {}
     /\ ~ExternalGives) =>
        LET positive == { r \in ReversedRates(last.pre, last.from, last.to) :
                            r.rate.c > 0 }
        IN  /\ positive # {} =>
                /\ \E r \in positive : IsReciprocal(last.rate, r.rate)
                /\ fx.cache = last.pre.cache
                /\ fx.rates = last.pre.rates
            /\ positive = {} => last.rate = None

\* the last operation converted an amount between two different currencies
Converted == last.op = "convert_amount" /\ last.from # last.to

\* the cache, the recent persisted rates, the external source and the
\* inverse all fail for the pair of the last operation
AllSourcesFail ==
    /\ last.pre.cache[<<last.from, last.to>>] = None
    /\ RecentRates(last.pre, last.from, last.to) = {}
    /\ ~ExternalGives
    /\ \A r \in ReversedRates(last.pre, last.from, last.to) : r.rate.c <= 0

\* C18: when the cache, the recent persisted rates, the external source and
\* the inverse all fail for a pair, resolving gives no rate (not 1, not any
\* number), convert fails with an error, and no conversion log entry,
\* persisted rate or cache entry is written.
C18_RateUnavailable ==
    (Converted /\ AllSourcesFail) =>
        /\ last.rate = None
        /\ last.raised
        /\ last.result = None
        /\ fx.logs = last.pre.logs
        /\ fx.rates = last.pre.rates
        /\ fx.cache = last.pre.cache

\* a conversion that failed because no source had a rate
C18_Witness ==
    /\ Converted
    /\ AllSourcesFail
    /\ last.raised
    /\ ReversedRates(last.pre, last.from, last.to) # {}

\* C19: every convert call that returns an amount, whatever the pair of
\* currencies, adds exactly one conversion log entry, and that entry holds
\* the original amount, the converted amount and the rate of the call.
C19_OneLogPerConversion ==
    (last.op = "convert_amount" /\ ~last.raised) =>
        IF Len(fx.logs) # Len(last.pre.logs) + 1 THEN FALSE
        ELSE LET entry == fx.logs[Len(fx.logs)]
             IN  /\ SubSeq(fx.logs, 1, Len(last.pre.logs)) = last.pre.logs
                 /\ entry.from_currency = last.from
                 /\ entry.to_currency = last.to
                 /\ entry.original_amount = last.amount
                 /\ entry.converted_amount = last.result
                 /\ entry.exchange_rate = last.rate

\* C20: for every currency c and every amount, convert(amount, c, c) is the
\* amount rounded half-up to the decimal places of c, as the conversion
\* between two currencies rounds its result.
C20_SameCurrencyRounded ==
    (last.op = "convert_amount" /\ last.from = last.to) =>
        /\ ~last.raised
        /\ last.result =
              quantize(last.amount,
                       get_currency_decimal_places(last.pre, last.to),
                       "ROUND_HALF_UP")

\* C21: a resolve call that falls through to the external source requests
\* the provider exactly once, whether the request succeeds or fails.
C21_SingleRequest ==
    (Resolved /\ last.by \notin {"cache", "db"}) => Len(last.calls) = 1

\* the rate resolving (from, to) returns in state st under provider api
RateOf(st, from, to, api) ==
    get_exchange_rate(st, from, to, Provider(api), TRUE).rate

\* C22: in every state reached by resolve, refresh-all-rates, rates added by
\* hand and cache expiry, a cache entry of (from, to) equals the latest
\* persisted rate of the pair within the 24 hour window, so that dropping
\* the entry does not change the rate resolving returns.
C22_CacheNotAuthoritative ==
    \A p \in Pairs :
        fx.cache[p] # None =>
            LET recent == RecentRates(fx, p[1], p[2])
                dropped == [fx EXCEPT !.cache[p] = None]
            IN  /\ recent # {}
                /\ \A r \in recent :
                       (\A q \in recent : q.date <= r.date)
                           => fx.cache[p] = r.rate
                /\ \A api \in Providers :
                       RateOf(dropped, p[1], p[2], api)
                           = RateOf(fx, p[1], p[2], api)

\* C23: after any sequence of resolve and refresh-all-rates operations the
\* persisted rates hold at most one rate per (from, to, calendar day), every
\* persisted rate is > 0, and a rate once persisted is never changed.
C23_RateHistory ==
    /\ \A r, q \in fx.rates :
           (/\ r.from_currency = q.from_currency
            /\ r.to_currency = q.to_currency
            /\ r.date \div HOURS = q.date \div HOURS) => r = q
    /\ \A r \in fx.rates : r.rate.c > 0
    /\ \A r \in last.pre.rates :
           \E q \in fx.rates : /\ q.from_currency = r.from_currency
                                /\ q.to_currency = r.to_currency
                                /\ q.date = r.date
                                /\ q.rate = r.rate

\* --------------------------------------------------- claims on card purchases
\* the last operation created a card purchase
Purchased == last.op = "createCardPurchase" /\ last.ok

\* the purchase the last operation created, and the transactions it added
NewPurchase == CHOOSE p \in purchases : p \notin last.pre.purchases
NewTxs == txs \ last.pre.txs
NewInstallments == { t \in NewTxs : t.origin = "installment" }

\* the date i calendar months after d, a month at a time
RECURSIVE MonthsOn(_, _)
MonthsOn(d, i) == IF i = 0 THEN d ELSE AddMonths(MonthsOn(d, i - 1), 1)

\* one confirmed expense of the principal dated at the purchase date, and N
\* unconfirmed linked installments a month apart from the first date
PlanShape ==
    LET N == last.data.total_installments
    IN  /\ Cardinality(purchases \ last.pre.purchases) = 1
        /\ Cardinality({ t \in NewTxs : t.origin = "card" }) = 1
        /\ \A t \in NewTxs : t.origin \in {"card", "installment"}
        /\ \A t \in NewTxs : t.origin = "card" =>
               /\ t.is_confirmed
               /\ t.transaction_type = "expense"
               /\ t.amount = last.data.total_amount
               /\ t.date = last.data.purchase_date
               /\ t.account = last.data.account
        /\ Cardinality(NewInstallments) = N
        /\ \A t \in NewInstallments :
               /\ ~t.is_confirmed
               /\ t.transaction_type = "expense"
               /\ t.card_purchase = NewPurchase.id
               /\ t.account = last.data.account
        /\ \A i \in 0..(N - 1) :
               Cardinality({ t \in NewInstallments :
                   t.date = MonthsOn(last.data.first_installment_date, i) })
                   = 1

C25_PrincipalPostedUpFront ==
    Purchased =>
        \A a \in Accounts :
            balance[a] = last.pre.balance[a]
                           - (IF a = last.data.account
                              THEN last.data.total_amount ELSE 0)

\* the installments of purchase id confirmed in table rows
ConfirmedInstallments(rows, id) ==
    { t \in rows : /\ t.card_purchase = id /\ t.origin = "installment"
                   /\ t.is_confirmed }

\* the purchase of the last operation, as it is now
PurchaseNow == CHOOSE p \in purchases : p.id = last.obj.id

\* C26: each successful payInstallment on an active purchase confirms exactly
\* one transaction, the earliest unconfirmed installment of the purchase,
\* and advances current_installment by exactly one; so current_installment
\* always equals the number of confirmed installments of the purchase, and
\* the status is completed exactly when that number is total_installments.
C26_PayInstallment ==
    /\ (last.op = "payInstallment" /\ last.ok) =>
           LET pending == { t \in last.pre.txs :
                              /\ t.card_purchase = last.obj.id
                              /\ t.origin = "installment"
                              /\ ~t.is_confirmed }
           IN  /\ last.obj.status = "active"
               /\ \E t \in pending :
                      /\ \A u \in pending : DateLE(t.date, u.date)
                      /\ txs = (last.pre.txs \ {t})
                                 \cup {[t EXCEPT !.is_confirmed = TRUE]}
               /\ PurchaseNow.current_installment
                      = last.obj.current_installment + 1
    /\ \A p \in purchases :
           /\ p.current_installment
                  = Cardinality(ConfirmedInstallments(txs, p.id))
           /\ p.status = "completed"
                  <=> Cardinality(ConfirmedInstallments(txs, p.id))
                          = p.total_installments

\* the transactions linked to purchase id in table rows
Linked(rows, id) == { t \in rows : t.card_purchase = id }

\* C27: payEarly on an active purchase deletes every unconfirmed transaction
\* linked to it, sets its status to completed and current_installment to
\* total_installments, and leaves every balance and every confirmed
\* transaction unchanged; on a purchase that is not active it is rejected
\* and changes nothing.
C27_PayEarly ==
    last.op = "payEarly" =>
        IF last.obj.status = "active"
        THEN /\ last.ok
             /\ txs = { t \in last.pre.txs :
                          ~(t.card_purchase = last.obj.id /\ ~t.is_confirmed) }
             /\ purchases = (last.pre.purchases \ {last.obj})
                    \cup {[last.obj EXCEPT
                             !.status = "completed",
                             !.current_installment =
                                 last.obj.total_installments]}
             /\ balance = last.pre.balance
        ELSE /\ ~last.ok
             /\ txs = last.pre.txs
             /\ purchases = last.pre.purchases
             /\ balance = last.pre.balance

\* an early payment of a purchase with one installment confirmed and others
\* pending
C27_Witness ==
    /\ last.op = "payEarly"
    /\ last.ok
    /\ \E t \in Linked(last.pre.txs, last.obj.id) : t.is_confirmed
    /\ \E t \in Linked(last.pre.txs, last.obj.id) : ~t.is_confirmed
    /\ Linked(txs, last.obj.id) # {}

\* the last call paid, or tried to pay, an installment with a number that is
\* already paid or out of range, or on a purchase that is not active
BadPayment ==
    /\ last.op = "payInstallment"
    /\ \/ last.obj.status # "active"
       \/ last.data <= last.obj.current_installment
       \/ last.data > last.obj.total_installments

\* C28: in every state reached by payInstallment and payEarly calls every
\* purchase has 0 <= current_installment <= total_installments; a call with
\* an installment number already paid or out of range, or on a completed or
\* cancelled purchase, is rejected and leaves the purchase and its
\* transactions unchanged.
C28_InstallmentBounds ==
    /\ \A p \in purchases :
           0 <= p.current_installment
               /\ p.current_installment <= p.total_installments
    /\ (BadPayment \/ (last.op = "payEarly" /\ last.obj.status # "active")) =>
           /\ ~last.ok
           /\ purchases = last.pre.purchases
           /\ txs = last.pre.txs

\* a payment of an installment already paid, rejected
C28_Witness ==
    /\ BadPayment
    /\ ~last.ok
    /\ last.obj.status = "active"
    /\ last.obj.current_installment >= 1
    /\ last.data >= 1

\* C29: two concurrent transfers in opposite directions between the same two
\* accounts cannot deadlock, the rows being locked in one fixed order: no
\* state has two workers each waiting for a row the other holds.
C29_NoDeadlock ==
    ~\E p, q \in Procs : WaitsFor(p, q) /\ WaitsFor(q, p)

\* ------------------------------------------- claims on repeated execution
\* d1 is strictly before d2
DateLT(d1, d2) == DateLE(d1, d2) /\ d1 # d2

\* C30: after a successful execution on day d the next_execution of the
\* auto-debit is strictly later than d, for every frequency and day-of-month
\* anchor, so on the same day the debit is not due: the batch pass does not
\* select it, and a second execute is rejected, posts no transaction and
\* does not debit the account.
C30_NotDueAgainSameDay ==
    /\ (last.op = "executeAutoDebit" /\ last.ok) =>
           DateLT(today, debits[last.obj].next_execution)
    /\ \A id \in DOMAIN debits :
           debits[id].last_execution = today =>
               /\ DateLT(today, debits[id].next_execution)
               /\ id \notin pending_debits(DB, today)
    /\ (/\ last.op = "executeAutoDebit"
        /\ last.pre.debits[last.obj].last_execution = today) =>
           /\ ~last.ok
           /\ txs = last.pre.txs
           /\ balance = last.pre.balance

\* a second execute of a monthly debit on the day it was executed
C30_Witness ==
    /\ last.op = "executeAutoDebit"
    /\ last.pre.debits[last.obj].last_execution = today
    /\ last.pre.debits[last.obj].status = "active"
    /\ last.pre.debits[last.obj].frequency = "monthly"
    /\ last.pre.debits[last.obj].day_of_month = 31
    /\ ~last.ok

====
